---- MODULE Spec2Model ----
(***************************************************************************)
(* Model of the cache subsystem of nfs-cachefs: the cache entry state      *)
(* machine (cache/state.rs), the copy task (cache/task.rs), the eviction   *)
(* policies (cache/eviction.rs) and the cache manager with its dispatcher  *)
(* and workers (cache/manager.rs).                                         *)
(*                                                                         *)
(* Sizes are counted in blocks: one block is one chunk of the chunked      *)
(* copy.  The local file system is modelled with inodes, so that a file    *)
(* descriptor keeps writing to the file it opened after that file was      *)
(* renamed or unlinked by somebody else.                                   *)
(***************************************************************************)
EXTENDS Integers, Sequences, FiniteSets, TLC

\* ------------------------------------------------------------------ bounds

\* Canonical cache paths (keys of cache_entries), each written <<stem,
\* extension>>.  Both live in one directory and differ only in their extension.
Paths == {<<"a", "bin">>, <<"a", "txt">>}

\* Largest file size, in blocks.
MaxSize == 2
Sizes == 1..MaxSize

\* Largest age / idle time (seconds) an entry of a snapshot can have.
MaxAge == 1

\* Number of on_insert / on_access / on_remove calls the policy harness makes.
MaxOps == 2

\* ------------------------------------------------------- cache/state.rs

\* CachePriority (Low = 0, Normal = 1, High = 2, Critical = 3).
Low == 0
Normal == 1
High == 2
Critical == 3
Priorities == {Low, Normal, High, Critical}

\* The priorities the entries of the model take: the file system submits
\* every promotion with Low (fs/cachefs.rs), Normal is the default, Critical
\* is the class no policy may evict.
UsedPriorities == {Low, Normal, Critical}

\* CacheStatus, plus "absent" for a path that has no entry in the table.
\* An entry is a record
\*   status, size (CacheEntry.size), fsize (total_size of CachingInProgress,
\*   file_size of Cached), prio, gen and prog (the identity and the value of
\*   the progress counter of CachingInProgress), retries (retry_count of
\*   Failed), count (access_count), age and idle (seconds since created_at /
\*   since last access; only the snapshots handed to a policy carry them).
NoEntry ==
  [status |-> "absent", size |-> 0, fsize |-> 0, prio |-> Normal, gen |-> 0,
   prog |-> 0, retries |-> 0, count |-> 0, age |-> 0, idle |-> 0]

is_cached(e) == e.status = "cached"

is_caching(e) == e.status = "caching"

is_failed(e) == e.status = "failed"

\* calculate_lru_score(a) > calculate_lru_score(b), where
\*   score = idle - 10 * count / (age + 1) - 100 * prio.
\* Both sides are multiplied by (a.age + 1) * (b.age + 1) to stay in integers.
ScoreTimes(e, o) ==
  (e.idle - 100 * e.prio) * (e.age + 1) * (o.age + 1) - 10 * e.count * (o.age + 1)

ScoreGreater(a, b) == ScoreTimes(a, b) > ScoreTimes(b, a)

\* ----------------------------------------------------- cache/eviction.rs

PolicyKinds == {"lru", "lfu", "arc"}

\* LruCache::put: the key becomes the most recent one (the head).
Without(s, p) == SelectSeq(s, LAMBDA x : x # p)

Put(s, p) == <<p>> \o Without(s, p)

Contains(s, p) == \E i \in 1..Len(s) : s[i] = p

\* The state of a policy object.  order: access_order of the LRU policy;
\* counts: access_counts of the LFU policy (0: no key); t1, t2, b1, b2, p:
\* the rings of the ARC policy; pins: protected_paths.
NewPolicy(kind) ==
  [kind |-> kind, order |-> <<>>, counts |-> [q \in Paths |-> 0],
   t1 |-> <<>>, t2 |-> <<>>, b1 |-> <<>>, b2 |-> <<>>, p |-> 0, pins |-> {}]

\* Capacity of the LruCache rings (10000 in CacheManager::new), scaled to the
\* number of paths: no ring ever holds more keys than that, so put never
\* evicts.
RingCapacity == 2

protect_path(pol, path) == [pol EXCEPT !.pins = @ \cup {path}]

unprotect_path(pol, path) == [pol EXCEPT !.pins = @ \ {path}]

is_protected(pol, path) == path \in pol.pins

should_evict(current_size, max_size) == current_size > max_size

on_insert(pol, path) ==
  CASE pol.kind = "lru" -> [pol EXCEPT !.order = Put(@, path)]
    [] pol.kind = "lfu" -> [pol EXCEPT !.counts[path] = 1]
    [] pol.kind = "arc" -> [pol EXCEPT !.t1 = Put(@, path)]

\* An on_access whose ARC arm moves p without its bounds.
on_access_unbounded(pol, path) ==
  CASE pol.kind = "lru" -> [pol EXCEPT !.order = Put(@, path)]
    [] pol.kind = "lfu" -> [pol EXCEPT !.counts[path] = @ + 1]
    [] pol.kind = "arc" ->
         IF Contains(pol.t1, path)
           THEN [pol EXCEPT !.t1 = Without(@, path), !.t2 = Put(@, path)]
         ELSE IF Contains(pol.t2, path)
           THEN [pol EXCEPT !.t2 = Put(@, path)]
         ELSE IF Contains(pol.b1, path)
           THEN [pol EXCEPT !.b1 = Without(@, path), !.t2 = Put(@, path), !.p = @ + 1]
         ELSE IF Contains(pol.b2, path)
           THEN [pol EXCEPT !.b2 = Without(@, path), !.t2 = Put(@, path), !.p = @ - 1]
         ELSE pol

on_access(pol, path) ==
  CASE pol.kind = "lru" -> [pol EXCEPT !.order = Put(@, path)]
    [] pol.kind = "lfu" -> [pol EXCEPT !.counts[path] = @ + 1]
    [] pol.kind = "arc" ->
         IF Contains(pol.t1, path)
           THEN [pol EXCEPT !.t1 = Without(@, path), !.t2 = Put(@, path)]
         ELSE IF Contains(pol.t2, path)
           THEN [pol EXCEPT !.t2 = Put(@, path)]
         ELSE IF Contains(pol.b1, path)
           THEN [pol EXCEPT !.b1 = Without(@, path), !.t2 = Put(@, path),
                            !.p = IF @ + 1 < RingCapacity THEN @ + 1 ELSE RingCapacity]
         ELSE IF Contains(pol.b2, path)
           THEN [pol EXCEPT !.b2 = Without(@, path), !.t2 = Put(@, path),
                            !.p = IF @ > 0 THEN @ - 1 ELSE 0]
         ELSE pol

on_remove(pol, path) ==
  CASE pol.kind = "lru" -> [pol EXCEPT !.order = Without(@, path)]
    [] pol.kind = "lfu" -> [pol EXCEPT !.counts[path] = 0]
    [] pol.kind = "arc" ->
         IF Contains(pol.t1, path)
           THEN [pol EXCEPT !.t1 = Without(@, path), !.b1 = Put(@, path)]
         ELSE IF Contains(pol.t2, path)
           THEN [pol EXCEPT !.t2 = Without(@, path), !.b2 = Put(@, path)]
         ELSE pol

\* The filter of select_victims without its test of the priority.
CandidatesNoCritical(pol, entries) ==
  {q \in Paths : /\ entries[q].status # "absent"
                 /\ ~is_caching(entries[q])
                 /\ ~is_protected(pol, q)}

\* The filter of select_victims: not caching, not protected, not critical.
Candidates(pol, entries) ==
  {q \in Paths : /\ entries[q].status # "absent"
                 /\ ~is_caching(entries[q])
                 /\ ~is_protected(pol, q)
                 /\ entries[q].prio # Critical}

\* A comparator that sorts the lowest LRU score first.
BeforeAscending(pol, entries, x, y) == ScoreGreater(entries[y], entries[x])

\* The comparator of sort_by: x sorts strictly before y.
Before(pol, entries, x, y) ==
  LET a == entries[x]
      b == entries[y]
  IN CASE pol.kind = "lru" -> ScoreGreater(a, b)
       [] pol.kind = "lfu" ->
            \/ pol.counts[x] < pol.counts[y]
            \/ pol.counts[x] = pol.counts[y] /\ a.prio < b.prio
            \/ pol.counts[x] = pol.counts[y] /\ a.prio = b.prio /\ a.idle > b.idle
       [] pol.kind = "arc" ->
            \/ Contains(pol.t1, x) /\ ~Contains(pol.t1, y)
            \/ (Contains(pol.t1, x) <=> Contains(pol.t1, y)) /\ ScoreGreater(b, a)

Perms(S) ==
  {s \in [1..Cardinality(S) -> S] : \A i, j \in 1..Cardinality(S) : i # j => s[i] # s[j]}

\* The outputs sort_by can produce: the map is iterated in an arbitrary order
\* and the sort is stable, so candidates that compare equal come in any order.
SortedCandidates(pol, entries) ==
  {s \in Perms(Candidates(pol, entries)) :
     \A i, j \in 1..Len(s) : i < j => ~Before(pol, entries, s[j], s[i])}

RECURSIVE WalkPast(_, _, _, _)
\* An alternative to Walk that stops only once more than needed is freed.
WalkPast(entries, s, freed, needed) ==
  IF s = <<>> \/ freed > needed THEN <<>>
  ELSE <<Head(s)>> \o WalkPast(entries, Tail(s), freed + entries[Head(s)].size, needed)

RECURSIVE Walk(_, _, _, _)
\* The loop that pushes victims until freed_space >= needed_space.
Walk(entries, s, freed, needed) ==
  IF s = <<>> \/ freed >= needed THEN <<>>
  ELSE <<Head(s)>> \o Walk(entries, Tail(s), freed + entries[Head(s)].size, needed)

\* The victim lists select_victims can return.
select_victims(pol, entries, needed) ==
  {Walk(entries, s, 0, needed) : s \in SortedCandidates(pol, entries)}

Range(s) == {s[i] : i \in 1..Len(s)}

\* -------------------------------------------------------- cache/task.rs

\* max_retries of the tasks the manager creates (with_max_retries(3)).
MaxRetries == 3

\* format!("caching.{}", retry_count)
CachingExt(retry_count) ==
  <<"caching.0", "caching.1", "caching.2", "caching.3">>[retry_count + 1]

\* Path::with_extension: the extension is replaced, the stem is kept.
with_extension(path, ext) == <<path[1], ext>>

get_temp_path(cache_path, retry_count) ==
  with_extension(cache_path, CachingExt(retry_count))

\* An alternative to can_retry that allows one attempt more.
can_retry_inclusive(retry_count) == retry_count <= MaxRetries

\* CacheTask::can_retry (task.rs 55-57).
can_retry(retry_count) == retry_count < MaxRetries

TempNames == {get_temp_path(q, k) : q \in Paths, k \in 0..MaxRetries}

\* ------------------------------------------------- the local file system

\* A file is an inode: the names linked to it, the tasks that hold it open
\* for writing, its blocks (each block names the source it was read from, or
\* is a hole) and whether all of it has reached the disk (fsync).
Hole == <<"", "">>

Present(files, name) == \E f \in files : name \in f.names

FileAt(files, name) == CHOOSE f \in files : name \in f.names

\* An inode without a name and without an open descriptor is gone.
Live(files) == {f \in files : f.names # {} \/ f.writers # {}}

Close(files, t) ==
  Live({[f EXCEPT !.writers = @ \ {t}] : f \in files})

\* open(O_WRONLY | O_CREAT | O_TRUNC) by task t (File::create).
Create(files, name, t) ==
  LET closed == Close(files, t)
  IN IF Present(closed, name)
       THEN {IF name \in f.names
               THEN [f EXCEPT !.writers = @ \cup {t}, !.data = <<>>, !.synced = FALSE]
               ELSE f : f \in closed}
       ELSE closed \cup {[names |-> {name}, writers |-> {t}, data |-> <<>>,
                          synced |-> FALSE]}

\* The blocks of a file after block `block` was written at offset `off`.
WriteBlock(data, off, block) ==
  [i \in 1..(IF off + 1 > Len(data) THEN off + 1 ELSE Len(data)) |->
     IF i = off + 1 THEN block ELSE IF i <= Len(data) THEN data[i] ELSE Hole]

RECURSIVE WriteBlocks(_, _, _, _)
WriteBlocks(data, off, n, block) ==
  IF n = 0 THEN data ELSE WriteBlocks(WriteBlock(data, off, block), off + 1, n - 1, block)

\* Task t writes n blocks at offset off through its descriptor.
Write(files, t, off, n, block) ==
  {IF t \in f.writers /\ n > 0
     THEN [f EXCEPT !.data = WriteBlocks(@, off, n, block), !.synced = FALSE]
     ELSE f : f \in files}

\* sync_all on the descriptor of task t.
Sync(files, t) ==
  {IF t \in f.writers THEN [f EXCEPT !.synced = TRUE] ELSE f : f \in files}

Unlink(files, name) ==
  Live({[f EXCEPT !.names = @ \ {name}] : f \in files})

\* rename(from, to): `to` now names the inode of `from`, atomically.
Rename(files, from, to) ==
  Live({IF from \in f.names
          THEN [f EXCEPT !.names = (@ \ {from}) \cup {to}]
          ELSE [f EXCEPT !.names = @ \ {to}] : f \in files})

\* ------------------------------------------------------ cache/manager.rs

\* max_cache_size_bytes, in blocks.
Ceiling == 2

\* max_concurrent_caching: the permits of task_semaphore.
MaxConcurrent == 2

\* Number of tasks the submit_cache_task calls of a run can send.
MaxSubmits == 2

\* Number of callers that are inside submit_cache_task at the same time.
MaxCallers == 1

\* Number of I/O errors the environment injects in a run.
MaxFaults == 1

\* How many record_access calls a run makes.
MaxAccesses == 2

\* Files below this size are copied in a single shot (1 MiB in the source;
\* a file of one block stands for such a file).
SmallLimit == 2

\* Files above this size go through the ring executor when it is ready
\* (10 MiB in the source; a file of two blocks stands for such a file).
UringMin == 1

\* The entries a snapshot can hold for one path.  An entry that is not cached
\* was last accessed when it was created (get_last_access_seconds), and the
\* fields of an entry in progress play no part in the selection.
SnapEntries ==
  {NoEntry} \cup
  {[NoEntry EXCEPT !.status = "caching", !.size = sz, !.fsize = sz] : sz \in Sizes} \cup
  {[NoEntry EXCEPT !.status = "failed", !.size = sz, !.fsize = sz, !.prio = pr,
                   !.age = ag, !.idle = ag] :
     sz \in Sizes, pr \in UsedPriorities, ag \in 0..MaxAge} \cup
  {e \in {[NoEntry EXCEPT !.status = "cached", !.size = sz, !.fsize = sz, !.prio = pr,
                          !.age = ag, !.idle = id] :
            sz \in Sizes, pr \in UsedPriorities, ag \in 0..MaxAge, id \in 0..MaxAge} :
     e.idle <= e.age}

\* ---------------------------------------------------------------- state

VARIABLES
  entries,    \* cache_entries: path -> entry (NoEntry: no key)
  files,      \* the inodes of the cache directory
  pol,        \* eviction_policy
  tasks,      \* every task sent on task_sender, in the order sent
  received,   \* number of tasks the dispatcher has taken from the channel
  open,       \* the receiver of the task channel is still alive
  workers,    \* task id -> the worker spawned for it, for the tasks of the run
  permits,    \* available permits of task_semaphore
  active,     \* active_tasks: the task ids whose JoinHandle is in the table
  disp,       \* the dispatcher: pc, the task it holds, the shutdown value seen
  signal,     \* the value of the shutdown watch channel
  shut,       \* the caller of shutdown(): pc and the handles it awaits
  callers,    \* the callers of submit_cache_task, their locals and last result
  sweep,      \* the caller of cleanup_expired_cache
  uring,      \* io_uring_executor is Some and ready
  metrics,    \* the counters of MetricsCollector the manager drives
  faults,     \* number of I/O errors the environment may still inject
  snap,       \* policy harness: the snapshot handed to select_victims
  needed,     \* policy harness: needed_space of the last select_victims
  victims,    \* policy harness: what the last select_victims returned
  ops,        \* policy harness: number of notifications made so far
  ordering,   \* task harness: three tasks and the outcome of comparing them
  latency,    \* the latency buffers and operation counters of MetricsCollector
  reads,      \* CacheFs::read: the file read, the last reply, the cache trigger
  delays,     \* the Err arm of the retry loop: a retry count and the back-off
  pool,       \* BufferPool: free_list, the permits of the semaphore, allocated
  guards,     \* the users of the pool: where each is in acquire or in the drop
  ioring,     \* IoUringExecutor.ring: its lock, the two queues, what is in flight
  iocalls     \* the callers of read_direct, read_fixed and splice_file

mvars == <<entries, files, tasks, received, open, workers, permits, active, disp,
           signal, shut, callers, sweep, uring, metrics, faults>>

bvars == <<pool, guards>>

uvars == <<ioring, iocalls>>

xvars == <<delays, bvars, uvars>>

hvars == <<ordering, latency, reads, xvars>>

pvars == <<snap, needed, victims, ops, hvars>>

vars == <<mvars, pol, pvars>>

Callers == DOMAIN callers

TaskIds == DOMAIN workers

IdleWorker == [pc |-> "none", retry |-> 0, copied |-> 0, gen |-> 0, mode |-> "none"]

IdleCaller ==
  [pc |-> "idle", path |-> <<"", "">>, size |-> 0, prio |-> Normal, res |-> "none",
   task |-> 0, late |-> FALSE, need |-> 0, freed |-> 0, victims |-> <<>>, evicted |-> <<>>,
   held |-> NoEntry, alone |-> FALSE]

IdleSweep == [pc |-> "idle", expired |-> <<>>]

\* CacheManager::new: an empty table, the policy and the ring executor the
\* configuration names, all permits free, the dispatcher started.  The run
\* has ncallers callers of submit_cache_task, room for ntasks tasks and
\* nfaults I/O errors.
Start(kind, ring, ncallers, ntasks, nfaults) ==
  /\ entries = [q \in Paths |-> NoEntry]
  /\ files = {}
  /\ pol = NewPolicy(kind)
  /\ tasks = <<>>
  /\ received = 0
  /\ open = TRUE
  /\ workers = [t \in 1..ntasks |-> IdleWorker]
  /\ permits = MaxConcurrent
  /\ active = {}
  /\ disp = [pc |-> "select", task |-> 0, seen |-> FALSE]
  /\ signal = FALSE
  /\ shut = [pc |-> "idle", await |-> {}]
  /\ callers = [c \in 1..ncallers |-> IdleCaller]
  /\ sweep = IdleSweep
  /\ uring = ring
  /\ metrics = [task_starts |-> 0, active_cache_tasks |-> 0, evictions |-> 0,
                cache_hits |-> 0, cache_misses |-> 0]
  /\ faults = nfaults

\* No tasks are being compared.
NoOrdering == [tasks |-> <<>>, cmp |-> <<>>, eq |-> <<>>]

\* ------------------------------------------- cache/metrics.rs (9-60)

\* Capacity of each latency buffer (1000 in MetricsCollector::new), scaled.
LatencyCapacity == 3

\* CircularBuffer::new: the slots hold Duration::default().
new_buffer(capacity) ==
  [data |-> [i \in 0..(capacity - 1) |-> 0], capacity |-> capacity,
   head |-> 0, size |-> 0]

push_in_place(b, item) ==
  [b EXCEPT !.data[b.head] = item,
            !.size = IF b.size < b.capacity THEN b.size + 1 ELSE b.size]

push(b, item) ==
  [b EXCEPT !.data[b.head] = item,
            !.head = (b.head + 1) % b.capacity,
            !.size = IF b.size < b.capacity THEN b.size + 1 ELSE b.size]

iter(b) ==
  IF b.size = 0 THEN <<>>
  ELSE IF b.size < b.capacity THEN [i \in 1..b.size |-> b.data[i - 1]]
  ELSE [i \in 1..b.capacity |-> b.data[(b.head + i - 1) % b.capacity]]

len(b) == b.size

clear(b) == [b EXCEPT !.head = 0, !.size = 0]

Channels == {"read", "write", "cache"}

\* MetricsCollector::new, with the samples recorded since the last reset.
NoLatency ==
  [buf |-> [ch \in Channels |-> new_buffer(LatencyCapacity)],
   total_reads |-> 0, total_writes |-> 0,
   recorded |-> [ch \in Channels |-> <<>>]]

\* No file is being read through the filesystem.
NoReads ==
  [config |-> [min_cache_file_size |-> 0, max_cache_size_bytes |-> 0],
   path |-> <<>>, backend |-> "gone", len |-> 0, cache |-> "absent",
   reply |-> [kind |-> "none"], trigger |-> "none", advice |-> "none"]

\* No back-off is being computed outside a worker.
NoDelays == [retry_count |-> 0, delay |-> 0]

MaxUsers == 3

Users == 1..MaxUsers

NoGuard == [pc |-> "idle", index |-> 0, res |-> "none"]

\* No buffer pool is in use.
NoBuffers ==
  /\ pool = [total_buffers |-> 0, free_list |-> <<>>, permits |-> 0, allocated |-> 0,
             dirty |-> {}]
  /\ guards = [u \in Users |-> NoGuard]

NoCall ==
  [pc |-> "idle", kind |-> "none", id |-> 0, chunks |-> 0, want |-> 0, reaped |-> 0,
   res |-> "none"]

\* No ring is in use.
NoRing ==
  /\ ioring = [lock |-> 0, sq |-> <<>>, flight |-> {}, cq |-> <<>>, issued |-> 0,
               faults |-> 0]
  /\ iocalls = [u \in Users |-> NoCall]

NoExtra ==
  /\ delays = NoDelays
  /\ NoBuffers
  /\ NoRing

\* The harnesses of the pure parts are idle during a run of the manager.
NoProbe ==
  /\ ordering = NoOrdering
  /\ latency = NoLatency
  /\ reads = NoReads
  /\ NoExtra

NoHarness ==
  /\ snap = [q \in Paths |-> NoEntry]
  /\ needed = 0
  /\ victims = <<>>
  /\ ops = 0
  /\ NoProbe

\* The configuration: eviction policy Lru (the default) and a TTL, with or
\* without the ring executor.
Init ==
  /\ \E ring \in BOOLEAN : Start("lru", ring, MaxCallers, MaxSubmits, MaxFaults)
  /\ NoHarness

\* CacheEntry::new(size).with_priority(priority)
NewEntry(size, priority) == [NoEntry EXCEPT !.status = "not_cached", !.size = size, !.prio = priority]

\* start_caching: a new progress counter at 0.
start_caching(e, total_size, gen) ==
  [e EXCEPT !.status = "caching", !.fsize = total_size, !.gen = gen, !.prog = 0,
            !.retries = 0]

complete_caching(e, file_size) ==
  [e EXCEPT !.status = "cached", !.fsize = file_size, !.gen = 0, !.prog = 0,
            !.retries = 0]

mark_failed(e, retry_count) ==
  [e EXCEPT !.status = "failed", !.fsize = 0, !.gen = 0, !.prog = 0,
            !.retries = retry_count]

HasEntry(q) == entries[q].status # "absent"

RECURSIVE SumSizes(_, _)
SumSizes(tab, S) ==
  IF S = {} THEN 0
  ELSE LET q == CHOOSE x \in S : TRUE IN tab[q].size + SumSizes(tab, S \ {q})

\* get_current_cache_size: the sizes of the cached entries.
get_current_cache_size(tab) == SumSizes(tab, {q \in Paths : is_cached(tab[q])})

\* The snapshots evict_files can take of a table: every entry is cloned, and
\* the clock gives it an age and, when it is cached, the time since its last
\* access (an entry that is not cached was last accessed when it was created).
Snapshots(tab) ==
  {[q \in Paths |->
      IF tab[q].status = "absent" THEN tab[q]
      ELSE [tab[q] EXCEPT !.age = ag[q],
                          !.idle = IF is_cached(tab[q]) THEN id[q] ELSE ag[q]]] :
     <<ag, id>> \in {x \in [Paths -> 0..MaxAge] \X [Paths -> 0..MaxAge] :
                       \A q \in Paths : x[2][q] <= x[1][q]}}

\* ------------------------------------------- cache/metrics.rs (249-256)

record_cache_task_start(m) ==
  [m EXCEPT !.task_starts = @ + 1, !.active_cache_tasks = @ + 1]

record_cache_task_complete(m) == [m EXCEPT !.active_cache_tasks = @ - 1]

\* ------------------------------------------- submit_cache_task (156-244)

\* Arc::new(AtomicU64::new(0)): a counter no entry and no worker holds.  The
\* counters are numbered; the lowest free number names the new one.
NewCounter ==
  LET held == {entries[q].gen : q \in Paths} \cup {workers[t].gen : t \in TaskIds}
  IN CHOOSE g \in 1..(Cardinality(Paths) + Cardinality(TaskIds) + 1) :
       g \notin held /\ \A h \in 1..(g - 1) : h \in held

\* The caller returns: the path and the result of its last call stay
\* readable, and the task it sent (0: none).  While a call runs, `late`
\* tells that it began after shutdown() had returned, and `alone` that its
\* eviction began with no worker and no sweep under way.
Return(c, result, task) ==
  [IdleCaller EXCEPT !.path = callers[c].path, !.res = result, !.task = task]

InCall(c) == callers[c].pc # "idle"

\* The next call is made by the first caller that is not inside one; every
\* call may end in a task, and a run has MaxSubmits of them.
Free(c) ==
  /\ ~InCall(c)
  /\ \A d \in Callers : d < c => InCall(d)
  /\ Len(tasks) + Cardinality({d \in Callers : InCall(d)}) < Cardinality(TaskIds)

\* tokio::fs::metadata(&nfs_path) fails: the call returns IoError.
SubmitStatFails(c, path) ==
  /\ Free(c)
  /\ faults > 0
  /\ faults' = faults - 1
  /\ callers' = [callers EXCEPT ![c] = [IdleCaller EXCEPT !.path = path, !.res = "io_error"]]
  /\ UNCHANGED <<entries, files, pol, tasks, received, open, workers, permits, active,
                 disp, signal, shut, sweep, uring, metrics, pvars>>

\* The match without its arm for an entry in progress.
SubmitSkipsCachedOnly(e) == is_cached(e)

\* The match arms that end the call with Ok: the entry is cached or in
\* progress.
SubmitSkips(e) == is_cached(e) \/ is_caching(e)

\* The stat succeeds with file_size, then cache_entries.entry(cache_path):
\* an occupied entry that is cached or in progress ends the call with Ok, a
\* failed one lets it go on, a vacant one is filled with an entry in progress.
SubmitBegin(c, path, priority, file_size) ==
  /\ Free(c)
  /\ LET e == entries[path]
         me == [IdleCaller EXCEPT !.pc = "space", !.path = path, !.size = file_size,
                                  !.prio = priority, !.late = (shut.pc = "returned")]
     IN IF HasEntry(path) /\ SubmitSkips(e)
          THEN /\ callers' = [callers EXCEPT ![c] =
                    [IdleCaller EXCEPT !.path = path, !.res = "ok"]]
               /\ UNCHANGED entries
          ELSE IF HasEntry(path)
            THEN /\ callers' = [callers EXCEPT ![c] = me]
                 /\ UNCHANGED entries
            ELSE /\ callers' = [callers EXCEPT ![c] = me]
                 /\ entries' = [entries EXCEPT ![path] =
                      start_caching(NewEntry(file_size, priority), file_size, NewCounter)]
  /\ UNCHANGED <<files, pol, tasks, received, open, workers, permits, active, disp,
                 signal, shut, sweep, uring, metrics, faults, pvars>>

\* Every task sent so far has run to its end and no sweep is under way: with
\* one caller, no worker runs until the call in progress has sent its task.
Quiet ==
  /\ \A t \in 1..Len(tasks) : workers[t].pc = "done"
  /\ sweep.pc = "idle"

\* ensure_cache_space (247-260), and the head of evict_files (263-278) when
\* the free space does not do: the snapshot and the victims.
EnsureSpace(c) ==
  /\ callers[c].pc = "space"
  /\ LET me == callers[c]
         current_size == get_current_cache_size(entries)
         available_space == IF Ceiling > current_size THEN Ceiling - current_size ELSE 0
         space_to_free == me.size - available_space
     IN IF available_space >= me.size
          THEN callers' = [callers EXCEPT ![c].pc = "insert"]
          ELSE \E sn \in Snapshots(entries) :
                 \E vs \in select_victims(pol, sn, space_to_free) :
                   callers' = [callers EXCEPT ![c].pc = "evict", ![c].need = space_to_free,
                                              ![c].victims = vs,
                                              ![c].alone = Quiet]
  /\ UNCHANGED <<entries, files, pol, tasks, received, open, workers, permits, active,
                 disp, signal, shut, sweep, uring, metrics, faults, pvars>>

\* evict_files, one victim (280-282): cache_entries.remove takes the entry
\* out of the table; a victim with no entry is passed over.
EvictTake(c) ==
  /\ callers[c].pc = "evict"
  /\ callers[c].victims # <<>>
  /\ LET v == Head(callers[c].victims)
     IN IF ~HasEntry(v)
          THEN /\ callers' = [callers EXCEPT ![c].victims = Tail(@)]
               /\ UNCHANGED entries
          ELSE /\ callers' = [callers EXCEPT ![c].pc = "unlink", ![c].held = entries[v]]
               /\ entries' = [entries EXCEPT ![v] = NoEntry]
  /\ UNCHANGED <<files, pol, tasks, received, open, workers, permits, active, disp,
                 signal, shut, sweep, uring, metrics, faults, pvars>>

\* evict_files, the entry taken out (283-309).  One that is in progress is
\* inserted again, over whatever the table holds by then, and the loop goes
\* on.  Else remove_file of the victim: on success its size is freed; on
\* failure the entry taken out is inserted again.
EvictUnlink(c, fails) ==
  /\ callers[c].pc = "unlink"
  /\ LET me == callers[c]
         v == Head(me.victims)
         freed_space == me.freed + me.held.size
     IN /\ fails => faults > 0 /\ ~is_caching(me.held)
        /\ IF is_caching(me.held)
             THEN /\ entries' = [entries EXCEPT ![v] = me.held]
                  /\ callers' = [callers EXCEPT ![c] =
                       [me EXCEPT !.pc = "evict", !.held = NoEntry, !.victims = Tail(@)]]
                  /\ UNCHANGED <<files, metrics, faults>>
           ELSE IF Present(files, v) /\ ~fails
             THEN /\ files' = Unlink(files, v)
                  /\ metrics' = [metrics EXCEPT !.evictions = @ + 1]
                  /\ callers' = [callers EXCEPT ![c] =
                       [me EXCEPT !.pc = "evict", !.held = NoEntry, !.freed = freed_space,
                                  !.evicted = Append(@, v),
                                  !.victims = IF freed_space >= me.need THEN <<>>
                                              ELSE Tail(@)]]
                  /\ UNCHANGED <<entries, faults>>
             ELSE /\ entries' = [entries EXCEPT ![v] = me.held]
                  /\ faults' = IF Present(files, v) THEN faults - 1 ELSE faults
                  /\ callers' = [callers EXCEPT ![c] =
                       [me EXCEPT !.pc = "evict", !.held = NoEntry, !.victims = Tail(@)]]
                  /\ UNCHANGED <<files, metrics>>
  /\ UNCHANGED <<pol, tasks, received, open, workers, permits, active, disp, signal,
                 shut, sweep, uring, pvars>>

\* A failed call that leaves its entry in the table.
KeepEntry(tab, path) == tab

\* cache_entries.remove(&cache_path) on the error paths of submit_cache_task
\* (207, 236).
RemoveEntry(tab, path) == [tab EXCEPT ![path] = NoEntry]

RECURSIVE RemoveAll(_, _)
RemoveAll(p, paths) ==
  IF paths = <<>> THEN p ELSE RemoveAll(on_remove(p, Head(paths)), Tail(paths))

\* evict_files, after the loop (312-327): the policy hears of the removals;
\* too little freed is InsufficientSpace, on which submit_cache_task removes
\* the entry of its path and returns the error (204-209).
EvictEnd(c) ==
  /\ callers[c].pc = "evict"
  /\ callers[c].victims = <<>>
  /\ pol' = RemoveAll(pol, callers[c].evicted)
  /\ IF callers[c].freed < callers[c].need
       THEN /\ entries' = RemoveEntry(entries, callers[c].path)
            /\ callers' = [callers EXCEPT ![c] = Return(c, "no_space", 0)]
       ELSE /\ callers' = [callers EXCEPT ![c] =
                 [@ EXCEPT !.pc = "insert", !.need = 0, !.freed = 0, !.evicted = <<>>,
                           !.alone = FALSE]]
            /\ UNCHANGED entries
  /\ UNCHANGED <<files, tasks, received, open, workers, permits, active, disp, signal,
                 shut, sweep, uring, metrics, faults, pvars>>

\* The tail of submit_cache_task (212-243): the entry is put in progress and
\* the policy notified, the task is sent, the start of the task is counted.
\* A closed channel removes the entry and fails the call.
SubmitEnqueue(c) ==
  /\ callers[c].pc = "insert"
  /\ LET me == callers[c]
         e == entries[me.path]
         started == IF is_caching(e) THEN e ELSE start_caching(e, me.size, NewCounter)
     IN IF ~HasEntry(me.path)
          THEN /\ callers' = [callers EXCEPT ![c] = Return(c, "lost", 0)]
               /\ UNCHANGED <<entries, pol, tasks, metrics>>
          ELSE /\ pol' = on_insert(pol, me.path)
               /\ IF open
                    THEN /\ entries' = [entries EXCEPT ![me.path] = started]
                         /\ tasks' = Append(tasks, [path |-> me.path, size |-> me.size,
                                                    prio |-> me.prio])
                         /\ metrics' = record_cache_task_start(metrics)
                         /\ callers' = [callers EXCEPT ![c] = Return(c, "ok", Len(tasks) + 1)]
                    ELSE /\ entries' = RemoveEntry(entries, me.path)
                         /\ callers' = [callers EXCEPT ![c] = Return(c, "send_error", 0)]
                         /\ UNCHANGED <<tasks, metrics>>
  /\ UNCHANGED <<files, received, open, workers, permits, active, disp, signal, shut,
                 sweep, uring, faults, pvars>>

\* ------------------------------------------------ record_access (147-153)

\* The caller that makes the next call: the first one not inside a call.
NextCaller(c) ==
  /\ ~InCall(c)
  /\ \A d \in Callers : d < c => InCall(d)

\* An alternative to path_is_cached that takes any entry of the table for a
\* cached one.
path_is_known(tab, path) == tab[path].status # "absent"

\* CacheManager::is_cached (121-127): the path has an entry and its status
\* is cached.
path_is_cached(tab, path) ==
  IF tab[path].status # "absent" THEN is_cached(tab[path]) ELSE FALSE

\* record_access: one hit if the path is cached, else one miss.  The caller
\* record keeps the path; "access" tells the call from a submit.
RecordAccess(c, path) ==
  /\ NextCaller(c)
  /\ metrics.cache_hits + metrics.cache_misses < MaxAccesses
  /\ metrics' = IF path_is_cached(entries, path)
                  THEN [metrics EXCEPT !.cache_hits = @ + 1]
                  ELSE [metrics EXCEPT !.cache_misses = @ + 1]
  /\ callers' = [callers EXCEPT ![c] = [IdleCaller EXCEPT !.path = path, !.res = "access"]]
  /\ UNCHANGED <<entries, files, pol, tasks, received, open, workers, permits, active,
                 disp, signal, shut, sweep, uring, faults, pvars>>

\* ------------------------------------------ start_task_processor (340-398)

\* task_receiver.recv() yields the next task of the channel.
DispatchRecv ==
  /\ disp.pc = "select"
  /\ received < Len(tasks)
  /\ received' = received + 1
  /\ disp' = [disp EXCEPT !.pc = "acquire", !.task = received + 1]
  /\ UNCHANGED <<entries, files, pol, tasks, open, workers, permits, active, signal,
                 shut, callers, sweep, uring, metrics, faults, pvars>>

\* A permit is there (try_acquire_owned, or acquire_owned once one is freed):
\* the worker is spawned and its handle put into active_tasks.
DispatchSpawn ==
  /\ disp.pc = "acquire"
  /\ permits > 0
  /\ permits' = permits - 1
  /\ workers' = [workers EXCEPT ![disp.task] = [IdleWorker EXCEPT !.pc = "start"]]
  /\ active' = active \cup {disp.task}
  /\ disp' = [disp EXCEPT !.pc = "select", !.task = 0]
  /\ UNCHANGED <<entries, files, pol, tasks, received, open, signal, shut, callers,
                 sweep, uring, metrics, faults, pvars>>

\* shutdown_receiver.changed() fires: on true the loop is left, which drops
\* the receiver of the task channel with whatever is still queued in it.
DispatchShutdown ==
  /\ disp.pc = "select"
  /\ disp.seen # signal
  /\ disp' = [disp EXCEPT !.seen = signal, !.pc = IF signal THEN "exit" ELSE @]
  /\ open' = IF signal THEN FALSE ELSE open
  /\ UNCHANGED <<entries, files, pol, tasks, received, workers, permits, active, signal,
                 shut, callers, sweep, uring, metrics, faults, pvars>>

\* ---------------------------------- execute_cache_task_impl (423-596)

TempOf(t) == get_temp_path(tasks[t].path, workers[t].retry)

\* progress.store(value) on the counter a worker took from the entry: the
\* entry shows it as long as it still holds that counter.
StoreProgress(tab, path, gen, value) ==
  IF gen # 0 /\ is_caching(tab[path]) /\ tab[path].gen = gen
    THEN [tab EXCEPT ![path].prog = value]
    ELSE tab

\* if let Some(mut entry) = cache_entries.get_mut(..) { entry.mark_failed(..) }
MarkFailed(tab, path, retry_count) ==
  IF tab[path].status # "absent"
    THEN [tab EXCEPT ![path] = mark_failed(@, retry_count)]
    ELSE tab

\* An alternative to Exit in which the worker keeps its permit.
ExitKeepsPermit(t, fs, cleanup) ==
  /\ files' = IF cleanup THEN Unlink(fs, TempOf(t)) ELSE fs
  /\ workers' = [workers EXCEPT ![t] = [IdleWorker EXCEPT !.pc = "done"]]
  /\ permits' = permits

\* The worker returns: TempFileGuard removes the temp file if `cleanup`, the
\* permit is dropped.
Exit(t, fs, cleanup) ==
  /\ files' = IF cleanup THEN Unlink(fs, TempOf(t)) ELSE fs
  /\ workers' = [workers EXCEPT ![t] = [IdleWorker EXCEPT !.pc = "done"]]
  /\ permits' = permits + 1

\* The copy of an attempt returned Err (564-593): another attempt after the
\* back-off while can_retry, else the entry is marked failed and the task is
\* recorded as complete (581-587).
CopyFailed(t, fs) ==
  IF can_retry(workers[t].retry)
    THEN /\ workers' = [workers EXCEPT ![t] =
              [IdleWorker EXCEPT !.pc = "backoff", !.retry = workers[t].retry + 1]]
         /\ files' = fs
         /\ UNCHANGED <<entries, permits, metrics>>
    ELSE /\ entries' = MarkFailed(entries, tasks[t].path, workers[t].retry)
         /\ metrics' = record_cache_task_complete(metrics)
         /\ Exit(t, fs, TRUE)

\* An alternative to Backend that does not ask whether the ring executor is
\* there.
BackendBySize(size) ==
  IF size > UringMin THEN "uring"
  ELSE IF size < SmallLimit THEN "single" ELSE "chunked"

\* copy_file_to_cache (600-624): the ring executor for a large file when it
\* is ready, else the single shot for a small file, else the chunked copy.
Backend(size) ==
  IF uring /\ size > UringMin THEN "uring"
  ELSE IF size < SmallLimit THEN "single" ELSE "chunked"

AsyncBackend(size) == IF size < SmallLimit THEN "single" ELSE "chunked"

\* The attempt opens the source and creates the temp file (truncating one
\* that is there), and takes the progress counter of the entry.
WorkerOpen(t, fails) ==
  /\ workers[t].pc = "start"
  /\ fails => faults > 0
  /\ faults' = IF fails THEN faults - 1 ELSE faults
  /\ IF fails
       THEN CopyFailed(t, files)
       ELSE /\ files' = Create(files, TempOf(t), t)
            /\ workers' = [workers EXCEPT ![t] =
                 [@ EXCEPT !.pc = "copy", !.copied = 0, !.mode = Backend(tasks[t].size),
                           !.gen = IF is_caching(entries[tasks[t].path])
                                     THEN entries[tasks[t].path].gen ELSE 0]]
            /\ UNCHANGED <<entries, permits, metrics>>
  /\ UNCHANGED <<pol, tasks, received, open, active, disp, signal, shut, callers, sweep,
                 uring, pvars>>

\* One write of the copy: the whole file in the single shot (804-820), one
\* block in the chunked copy (906-929); the progress counter is stored.
WorkerWrite(t) ==
  /\ workers[t].pc = "copy"
  /\ LET w == workers[t]
         n == IF w.mode = "single" THEN tasks[t].size ELSE 1
     IN /\ \/ w.mode = "single" /\ w.copied = 0
           \/ w.mode = "chunked" /\ w.copied < MaxSize
        /\ files' = Write(files, t, w.copied, n, tasks[t].path)
        /\ workers' = [workers EXCEPT ![t].copied = w.copied + n]
        /\ entries' = StoreProgress(entries, tasks[t].path, w.gen, w.copied + n)
  /\ UNCHANGED <<pol, tasks, received, open, permits, active, disp, signal, shut,
                 callers, sweep, uring, metrics, faults, pvars>>

\* read_exact of the single shot fails (the source is shorter than declared):
\* the copy goes on as a chunked copy from offset 0 (824-840).
WorkerShortRead(t) ==
  /\ workers[t].pc = "copy"
  /\ workers[t].mode = "single"
  /\ workers[t].copied = 0
  /\ workers' = [workers EXCEPT ![t].mode = "chunked"]
  /\ UNCHANGED <<entries, files, pol, tasks, received, open, permits, active, disp,
                 signal, shut, callers, sweep, uring, metrics, faults, pvars>>

\* The end of the source is read (910): sync_all, and the copy returns Ok
\* (852-875, 957-980).
WorkerSync(t) ==
  /\ workers[t].pc = "copy"
  /\ \/ workers[t].mode = "single" /\ workers[t].copied = tasks[t].size
     \/ workers[t].mode = "chunked"
  /\ files' = Close(Sync(files, t), t)
  /\ workers' = [workers EXCEPT ![t].pc = "copied"]
  /\ UNCHANGED <<entries, pol, tasks, received, open, permits, active, disp, signal,
                 shut, callers, sweep, uring, metrics, faults, pvars>>

\* A read, a write or the sync of the copy fails: the copy returns Err.
WorkerCopyFails(t) ==
  /\ workers[t].pc = "copy"
  /\ workers[t].mode # "uring"
  /\ faults > 0
  /\ faults' = faults - 1
  /\ CopyFailed(t, Close(files, t))
  /\ UNCHANGED <<pol, tasks, received, open, active, disp, signal, shut, callers, sweep,
                 uring, pvars>>

\* splice_file (uring.rs 262-365) moves the declared size in one chunk; what
\* arrives is what the source holds.  copy_file_with_io_uring then stores
\* the declared size as progress and returns Ok (674-704).
WorkerSplice(t, n) ==
  /\ workers[t].pc = "copy"
  /\ workers[t].mode = "uring"
  /\ n <= tasks[t].size
  /\ files' = Close(Write(files, t, 0, n, tasks[t].path), t)
  /\ workers' = [workers EXCEPT ![t].pc = "copied", ![t].copied = n]
  /\ entries' = StoreProgress(entries, tasks[t].path, workers[t].gen, tasks[t].size)
  /\ UNCHANGED <<pol, tasks, received, open, permits, active, disp, signal, shut,
                 callers, sweep, uring, metrics, faults, pvars>>

\* splice_file fails: the same attempt falls back to copy_file_with_async_io
\* (705-710), which creates the temp file again.
WorkerSpliceFails(t) ==
  /\ workers[t].pc = "copy"
  /\ workers[t].mode = "uring"
  /\ faults > 0
  /\ faults' = faults - 1
  /\ files' = Create(files, TempOf(t), t)
  /\ workers' = [workers EXCEPT ![t] =
       [@ EXCEPT !.copied = 0, !.mode = AsyncBackend(tasks[t].size),
                 !.gen = IF is_caching(entries[tasks[t].path])
                           THEN entries[tasks[t].path].gen ELSE 0]]
  /\ UNCHANGED <<entries, pol, tasks, received, open, permits, active, disp, signal,
                 shut, callers, sweep, uring, metrics, pvars>>

\* The size of the temp file is checked against the declared size (482-508);
\* a missing file or another size marks the entry failed and ends the task.
WorkerVerify(t) ==
  /\ workers[t].pc = "copied"
  /\ IF Present(files, TempOf(t)) /\ Len(FileAt(files, TempOf(t)).data) = tasks[t].size
       THEN /\ workers' = [workers EXCEPT ![t].pc = "rename"]
            /\ UNCHANGED <<entries, files, permits>>
       ELSE /\ entries' = MarkFailed(entries, tasks[t].path, workers[t].retry)
            /\ Exit(t, files, TRUE)
  /\ UNCHANGED <<pol, tasks, received, open, active, disp, signal, shut, callers, sweep,
                 uring, metrics, faults, pvars>>

\* rename(temp, cache_path) (514, 550-561); a failure marks the entry failed
\* and ends the task.
WorkerRename(t, fails) ==
  /\ workers[t].pc = "rename"
  /\ fails => faults > 0
  /\ IF Present(files, TempOf(t)) /\ ~fails
       THEN /\ files' = Rename(files, TempOf(t), tasks[t].path)
            /\ workers' = [workers EXCEPT ![t].pc = "renamed"]
            /\ UNCHANGED <<entries, permits, faults>>
       ELSE /\ faults' = IF Present(files, TempOf(t)) THEN faults - 1 ELSE faults
            /\ entries' = MarkFailed(entries, tasks[t].path, workers[t].retry)
            /\ Exit(t, files, TRUE)
  /\ UNCHANGED <<pol, tasks, received, open, active, disp, signal, shut, callers, sweep,
                 uring, metrics, pvars>>

\* After the rename (518-548): the entry becomes cached, the task is recorded
\* as complete and the guard is forgotten; if the entry is gone the task ends with "Cache entry lost".
WorkerComplete(t) ==
  /\ workers[t].pc = "renamed"
  /\ IF HasEntry(tasks[t].path)
       THEN /\ entries' = [entries EXCEPT ![tasks[t].path] =
                 complete_caching(@, tasks[t].size)]
            /\ metrics' = record_cache_task_complete(metrics)
            /\ Exit(t, files, FALSE)
       ELSE /\ UNCHANGED <<entries, metrics>>
            /\ Exit(t, files, TRUE)
  /\ UNCHANGED <<pol, tasks, received, open, active, disp, signal, shut, callers, sweep,
                 uring, faults, pvars>>

\* The back-off is over (573-578): the guard of the attempt that failed
\* removes its temp file, and the loop starts the next attempt.
WorkerBackoff(t) ==
  /\ workers[t].pc = "backoff"
  /\ files' = Unlink(files, get_temp_path(tasks[t].path, workers[t].retry - 1))
  /\ workers' = [workers EXCEPT ![t].pc = "start"]
  /\ UNCHANGED <<entries, pol, tasks, received, open, permits, active, disp, signal,
                 shut, callers, sweep, uring, metrics, faults, pvars>>

\* ------------------------------------------------- shutdown (1060-1075)

\* shutdown_sender.send(true), then the keys of active_tasks are collected.
ShutdownSignal ==
  /\ shut.pc = "idle"
  /\ signal' = TRUE
  /\ shut' = [pc |-> "await", await |-> active]
  /\ UNCHANGED <<entries, files, pol, tasks, received, open, workers, permits, active,
                 disp, callers, sweep, uring, metrics, faults, pvars>>

\* Every collected handle has been removed and awaited: shutdown returns.
ShutdownReturn ==
  /\ shut.pc = "await"
  /\ \A t \in shut.await : workers[t].pc = "done"
  /\ active' = active \ shut.await
  /\ shut' = [pc |-> "returned", await |-> {}]
  /\ UNCHANGED <<entries, files, pol, tasks, received, open, workers, permits, disp,
                 signal, callers, sweep, uring, metrics, faults, pvars>>

\* ------------------------------------- cleanup_expired_cache (1029-1057)

\* The sequences without repetition over a set.
Orders(S) == UNION {Perms(T) : T \in SUBSET S}

\* The scan (1034-1042): the cached entries older than the TTL, in the order
\* the table yields them.  How old an entry is lies with the clock.
SweepScan ==
  /\ sweep.pc = "idle"
  /\ \E ex \in Orders({q \in Paths : is_cached(entries[q])}) :
       /\ ex # <<>>
       /\ sweep' = [pc |-> "remove", expired |-> ex]
  /\ UNCHANGED <<entries, files, pol, tasks, received, open, workers, permits, active,
                 disp, signal, shut, callers, uring, metrics, faults, pvars>>

\* cache_entries.remove(&path) of the next expired path (1045).
SweepRemove ==
  /\ sweep.pc = "remove"
  /\ LET q == Head(sweep.expired)
     IN IF HasEntry(q)
          THEN /\ entries' = [entries EXCEPT ![q] = NoEntry]
               /\ sweep' = [sweep EXCEPT !.pc = "unlink"]
          ELSE /\ sweep' = IF Tail(sweep.expired) = <<>> THEN IdleSweep
                            ELSE [sweep EXCEPT !.expired = Tail(@)]
               /\ UNCHANGED entries
  /\ UNCHANGED <<files, pol, tasks, received, open, workers, permits, active, disp,
                 signal, shut, callers, uring, metrics, faults, pvars>>

\* remove_file of the expired path (1046-1051): the policy hears of the
\* removal when the file is gone; a failure is only logged.
SweepUnlink(fails) ==
  /\ sweep.pc = "unlink"
  /\ fails => faults > 0
  /\ LET q == Head(sweep.expired)
     IN /\ IF Present(files, q) /\ ~fails
             THEN /\ files' = Unlink(files, q)
                  /\ pol' = on_remove(pol, q)
                  /\ UNCHANGED faults
             ELSE /\ faults' = IF Present(files, q) THEN faults - 1 ELSE faults
                  /\ UNCHANGED <<files, pol>>
        /\ sweep' = IF Tail(sweep.expired) = <<>> THEN IdleSweep
                     ELSE [pc |-> "remove", expired |-> Tail(sweep.expired)]
  /\ UNCHANGED <<entries, tasks, received, open, workers, permits, active, disp, signal,
                 shut, callers, uring, metrics, pvars>>

\* ------------------------------------------------------- the manager

Next ==
  \/ \E c \in Callers, path \in Paths : SubmitStatFails(c, path)
  \/ \E c \in Callers, path \in Paths, pr \in {Low}, sz \in Sizes :
       SubmitBegin(c, path, pr, sz)
  \/ \E c \in Callers : EnsureSpace(c)
  \/ \E c \in Callers : EvictTake(c)
  \/ \E c \in Callers, fails \in BOOLEAN : EvictUnlink(c, fails)
  \/ \E c \in Callers : EvictEnd(c)
  \/ \E c \in Callers : SubmitEnqueue(c)
  \/ DispatchRecv
  \/ DispatchSpawn
  \/ DispatchShutdown
  \/ \E t \in TaskIds, fails \in BOOLEAN : WorkerOpen(t, fails)
  \/ \E t \in TaskIds : WorkerWrite(t)
  \/ \E t \in TaskIds : WorkerShortRead(t)
  \/ \E t \in TaskIds : WorkerSync(t)
  \/ \E t \in TaskIds : WorkerCopyFails(t)
  \/ \E t \in TaskIds, n \in 0..MaxSize : WorkerSplice(t, n)
  \/ \E t \in TaskIds : WorkerSpliceFails(t)
  \/ \E t \in TaskIds : WorkerVerify(t)
  \/ \E t \in TaskIds, fails \in BOOLEAN : WorkerRename(t, fails)
  \/ \E t \in TaskIds : WorkerComplete(t)
  \/ \E t \in TaskIds : WorkerBackoff(t)
  \/ ShutdownSignal
  \/ ShutdownReturn
  \/ SweepScan
  \/ SweepRemove
  \/ \E fails \in BOOLEAN : SweepUnlink(fails)

Spec == Init /\ [][Next]_vars

\* ------------------------------------------- properties of the manager

\* C2: the declared sizes of the cached entries never add up to more than
\* the ceiling (every declared size is at most the ceiling), also when
\* promotions are admitted while others are still in flight.
C2_CachedWithinCeiling == get_current_cache_size(entries) <= Ceiling

\* C3: every path whose entry is cached has a local file at its canonical
\* path, and the length of that file is the final size of the entry.
C3_CachedHasFile ==
  \A path \in Paths :
    is_cached(entries[path]) =>
      /\ Present(files, path)
      /\ Len(FileAt(files, path).data) = entries[path].fsize

\* C4: a file is at a canonical path only if the entry of that path is
\* cached; never at the path of an absent, in-progress or failed entry.
C4_FileOnlyIfCached ==
  \A path \in Paths : Present(files, path) => is_cached(entries[path])

\* The sizes the tasks sent for a path declare.
DeclaredSizes(path) == {tasks[t].size : t \in {u \in 1..Len(tasks) : tasks[u].path = path}}

\* C5: a file at a canonical path has the declared size and holds the blocks
\* of its own source, whatever the workers do: never a partial, torn or
\* foreign file.
C5_CanonicalFileWhole ==
  \A path \in Paths :
    Present(files, path) =>
      LET data == FileAt(files, path).data
      IN /\ Len(data) \in DeclaredSizes(path)
         /\ \A i \in 1..Len(data) : data[i] = path

\* C6: a step turns an entry cached only when the file at the canonical path
\* is completely written, synced to disk and no longer open for writing.
C6_CachedAfterSync ==
  [][\A path \in Paths :
       (~is_cached(entries[path]) /\ is_cached(entries'[path])) =>
         /\ Present(files, path)
         /\ FileAt(files, path).synced
         /\ FileAt(files, path).writers = {}
         /\ Len(FileAt(files, path).data) = entries'[path].fsize]_vars

\* No worker is between its start and its return.
NoWorkerRuns == \A t \in TaskIds : workers[t].pc \in {"none", "done"}

\* C8: once shutdown has returned no worker runs and none is started, and a
\* submit_cache_task call that begins after the return is refused: it sends
\* no task.
C8_ShutdownIsFinal ==
  [][/\ shut.pc = "returned" => (NoWorkerRuns /\ NoWorkerRuns')
     /\ \A c \in Callers : (InCall(c) /\ callers[c].late) => tasks' = tasks]_vars

\* C9: while an entry is in progress with one progress counter, the value of
\* the counter never goes down and never exceeds the total size.
C9_ProgressMonotonic ==
  [][\A path \in Paths :
       (/\ is_caching(entries[path])
        /\ is_caching(entries'[path])
        /\ entries'[path].gen = entries[path].gen) =>
         /\ entries'[path].prog >= entries[path].prog
         /\ entries'[path].prog <= entries'[path].fsize]_vars

\* Caller c starts a call in this step, for a path whose entry is cached or
\* in progress.
CallsOccupied(c) ==
  /\ ~InCall(c)
  /\ callers'[c] # callers[c]
  /\ entries[callers'[c].path].status \in {"cached", "caching"}

\* What a call leaves alone when it changes nothing: the table, the files,
\* the policy, the channel, the workers and the counters.
NothingChanges ==
  UNCHANGED <<entries, files, pol, tasks, received, workers, permits, active, metrics>>

\* C10 as stated: a call for a path whose entry is cached or in progress
\* returns success and changes nothing.
C10_SkipReturnsOk ==
  [][\A c \in Callers :
       CallsOccupied(c) =>
         /\ ~InCall(c)'
         /\ callers'[c].res = "ok"
         /\ callers'[c].task = 0
         /\ NothingChanges]_vars

\* C10, amended: such a call returns at once and changes nothing; its result
\* is success when the stat of the source succeeds and the I/O error of the
\* stat when it fails.
C10_SkipChangesNothing ==
  [][\A c \in Callers :
       CallsOccupied(c) =>
         /\ ~InCall(c)'
         /\ callers'[c].res \in {"ok", "io_error"}
         /\ callers'[c].task = 0
         /\ NothingChanges]_vars

\* A call has returned success without sending a task, for a path that is
\* cached.
C10_Witness ==
  \E c \in Callers :
    /\ ~InCall(c)
    /\ callers[c].res = "ok"
    /\ callers[c].task = 0
    /\ is_cached(entries[callers[c].path])

\* The results of submit_cache_task that are errors: the stat of the source
\* failed, too little space was freed, the entry was gone at line 212, the
\* channel was closed.
SubmitErrors == {"io_error", "no_space", "lost", "send_error"}

\* Caller c returns from a call in this step, with an error.
ReturnsError(c) ==
  /\ InCall(c) \/ callers'[c] # callers[c]
  /\ ~InCall(c)'
  /\ callers'[c].res \in SubmitErrors

\* C11: a call of submit_cache_task that returns an error has sent no task,
\* and leaves the entry of its path absent or, when the stat failed, as it
\* was: never an entry in progress that the call put there.
C11_ErrorLeavesNoEntry ==
  [][\A c \in Callers :
       ReturnsError(c) =>
         /\ tasks' = tasks
         /\ callers'[c].task = 0
         /\ metrics'.task_starts = metrics.task_starts
         /\ LET path == callers'[c].path
            IN IF callers'[c].res = "io_error"
                 THEN entries'[path] = entries[path]
                 ELSE entries'[path].status = "absent"]_vars

\* A call has failed for want of space after it had put an entry in progress
\* for its path, and the entry is gone.
C11_Witness ==
  \E c \in Callers :
    /\ ~InCall(c)
    /\ callers[c].res = "no_space"
    /\ ~HasEntry(callers[c].path)

\* Where a worker is while an attempt can still fail: before the copy, in
\* it, before the size check, before the rename.
AttemptPcs == {"start", "copy", "copied", "rename"}

\* C15: an attempt that fails before the entry is cached, with a retry count
\* below the ceiling, is followed by the back-off and another attempt: the
\* worker does not end there, and an entry is marked failed only with the
\* retry count at the ceiling.
C15_FailureBelowCeilingRetries ==
  [][/\ \A t \in TaskIds :
          (workers[t].pc \in AttemptPcs /\ workers'[t].pc = "done") =>
            workers[t].retry = MaxRetries
     /\ \A path \in Paths :
          (~is_failed(entries[path]) /\ is_failed(entries'[path])) =>
            entries'[path].retries = MaxRetries]_vars

\* C17: cleanup_expired_cache takes every path it found expired out of the
\* table, deletes the file of the path and tells the policy of the removal,
\* and leaves the entries of the other paths as they are.
C17_SweepRemovesAll ==
  [][sweep' # sweep =>
       /\ \A path \in Paths \ Range(sweep.expired) : entries'[path] = entries[path]
       /\ sweep.pc = "remove" => ~HasEntry(Head(sweep.expired))'
       /\ sweep.pc = "unlink" =>
            /\ ~Present(files', Head(sweep.expired))
            /\ pol' = on_remove(pol, Head(sweep.expired))]_vars

\* Worker t is the only one spawned so far.
OnlyWorker(t) == \A u \in TaskIds \ {t} : workers[u].pc = "none"

\* The attempt of worker t began with the ring executor and went on with the
\* async copy: the only way to a chunked copy of a file above the threshold
\* when the executor is ready.
FellBack(t) ==
  /\ uring
  /\ tasks[t].size > UringMin
  /\ workers[t].mode = "chunked"

Unfinished == {t \in 1..Len(tasks) : workers[t].pc # "done"}

\* C30: the active-task metric is the number of accepted tasks whose worker
\* has not returned; it is never negative, and 0 when none is queued or
\* running.
C30_ActiveTasksExact ==
  /\ metrics.active_cache_tasks = Cardinality(Unfinished)
  /\ metrics.active_cache_tasks >= 0

\* C26: once a worker has returned, whatever the way, none of the temp paths
\* of its attempts exists on disk; and the return after a success removes
\* no name: the file renamed to the destination is left where it is.
C26_NoTempAfterReturn ==
  [][\A t \in 1..Len(tasks) :
       /\ workers'[t].pc = "done" =>
            \A k \in 0..MaxRetries : ~Present(files', get_temp_path(tasks[t].path, k))
       /\ (workers[t].pc = "renamed" /\ workers'[t].pc = "done"
              /\ HasEntry(tasks[t].path)) =>
            {f.names : f \in files'} = {f.names : f \in files}]_vars

\* ------------------------------------- concurrent calls, no I/O errors

\* Callers inside submit_cache_task at the same time, and tasks they can
\* send, in the runs of SpecSubmit.
SubmitCallers == 2
SubmitTasks == 3

SubmitInit == Start("lru", FALSE, SubmitCallers, SubmitTasks, 0) /\ NoHarness

\* The manager without shutdown and cleanup, every I/O call succeeding.
SubmitNext ==
  \/ \E c \in Callers, path \in Paths, sz \in Sizes : SubmitBegin(c, path, Low, sz)
  \/ \E c \in Callers : EnsureSpace(c)
  \/ \E c \in Callers : EvictTake(c)
  \/ \E c \in Callers : EvictUnlink(c, FALSE)
  \/ \E c \in Callers : EvictEnd(c)
  \/ \E c \in Callers : SubmitEnqueue(c)
  \/ DispatchRecv
  \/ DispatchSpawn
  \/ \E t \in TaskIds : WorkerOpen(t, FALSE)
  \/ \E t \in TaskIds : WorkerWrite(t)
  \/ \E t \in TaskIds : WorkerShortRead(t)
  \/ \E t \in TaskIds : WorkerSync(t)
  \/ \E t \in TaskIds : WorkerVerify(t)
  \/ \E t \in TaskIds : WorkerRename(t, FALSE)
  \/ \E t \in TaskIds : WorkerComplete(t)

SpecSubmit == SubmitInit /\ [][SubmitNext]_vars

\* The tasks sent for a path whose worker has not returned yet.
InFlight(path) ==
  {t \in 1..Len(tasks) : tasks[t].path = path /\ workers[t].pc # "done"}

\* C1: submit calls that run concurrently for one path whose entry is absent,
\* not cached or failed send exactly one task between them, so a path never
\* has two tasks that are queued or running at the same time.
C1_OneTaskPerPath == \A path \in Paths : Cardinality(InFlight(path)) <= 1

\* The edges of the state machine of an entry: into progress by a call, out
\* of progress by the worker, out of the table by eviction or expiry.  The
\* last edge is more than the state machine names: a call that fails takes
\* the entry it put in progress out of the table again.
StatusEdges ==
  {<<"absent", "caching">>, <<"not_cached", "caching">>, <<"failed", "caching">>,
   <<"caching", "cached">>, <<"caching", "failed">>,
   <<"cached", "absent">>, <<"failed", "absent">>,
   <<"caching", "absent">>}

\* C14: every change of the status of an entry is an edge of the state
\* machine; so no worker turns a cached entry failed or a failed entry
\* cached.
C14_StatusFollowsEdges ==
  [][\A path \in Paths :
       entries'[path].status # entries[path].status =>
         <<entries[path].status, entries'[path].status>> \in StatusEdges]_vars

\* ----------------------------------- one caller, copies that keep failing

\* How many copies of a run return an error: enough for one task to use up
\* its retries.
RetryFaults == MaxRetries + 1

RetryTasks == 2

RetryInit == Start("lru", FALSE, MaxCallers, RetryTasks, RetryFaults) /\ NoHarness

RetryNext ==
  \/ \E c \in Callers, path \in Paths, sz \in Sizes : SubmitBegin(c, path, Low, sz)
  \/ \E c \in Callers : EnsureSpace(c)
  \/ \E c \in Callers : SubmitEnqueue(c)
  \/ \E c \in Callers, path \in Paths : RecordAccess(c, path)
  \/ DispatchRecv
  \/ DispatchSpawn
  \/ \E t \in TaskIds : WorkerOpen(t, FALSE)
  \/ \E t \in TaskIds : WorkerOpen(t, TRUE)
  \/ \E t \in TaskIds : WorkerWrite(t)
  \/ \E t \in TaskIds : WorkerSync(t)
  \/ \E t \in TaskIds : WorkerCopyFails(t)
  \/ \E t \in TaskIds : WorkerVerify(t)
  \/ \E t \in TaskIds : WorkerRename(t, FALSE)
  \/ \E t \in TaskIds : WorkerComplete(t)
  \/ \E t \in TaskIds : WorkerBackoff(t)

SpecRetry == RetryInit /\ [][RetryNext]_vars

\* The copy of worker t returns an error in this step: it was opening or
\* copying and is now backing off or has returned.
CopyErr(t) ==
  /\ workers[t].pc \in {"start", "copy"}
  /\ workers'[t].pc \in {"backoff", "done"}

\* C16: a failed copy is retried exactly while the retry count is below
\* max_retries, so the count never passes max_retries (at most max_retries + 1
\* attempts); the worker that gives up returns, leaves the entry failed with
\* retry count max_retries, and no caller's result changes.
C16_RetriesBounded ==
  [][\A t \in TaskIds :
       /\ workers'[t].retry <= MaxRetries
       /\ workers'[t].pc = "backoff" /\ workers[t].pc # "backoff" =>
            workers'[t].retry = workers[t].retry + 1
       /\ CopyErr(t) =>
            /\ workers'[t].pc = "backoff" <=> workers[t].retry < MaxRetries
            /\ workers'[t].pc = "done" =>
                 /\ HasEntry(tasks[t].path) =>
                      /\ is_failed(entries'[tasks[t].path])
                      /\ entries'[tasks[t].path].retries = MaxRetries
                 /\ callers' = callers]_vars

\* A worker has given up after its last attempt: the entry is failed with
\* the retry count at the ceiling, and the caller that sent the task holds Ok.
C16_Witness ==
  \E t \in 1..Len(tasks) :
    /\ workers[t].pc = "done"
    /\ faults = 0
    /\ is_failed(entries[tasks[t].path])
    /\ entries[tasks[t].path].retries = MaxRetries
    /\ \E c \in Callers : callers[c].task = t /\ callers[c].res = "ok"

\* The temp paths of the attempts worker t has begun so far.
AttemptsOf(t) ==
  IF workers[t].pc = "none" THEN {}
  ELSE {k \in 0..MaxRetries : k <= workers[t].retry}

\* A name as its dot-separated parts: the destination with one more part.
Appended(path, ext) == path \o <<ext>>

\* C25: the temp path of attempt k of a task is its destination with
\* ".caching.k" appended; the temp paths of the attempts of one task differ
\* from each other and from the destination.
C25_TempPathAppended ==
  \A t \in 1..Len(tasks) :
    LET d == tasks[t].path
    IN /\ \A k \in AttemptsOf(t) : get_temp_path(d, k) = Appended(d, CachingExt(k))
       /\ \A k \in AttemptsOf(t) : get_temp_path(d, k) # d
       /\ \A j, k \in AttemptsOf(t) : j # k => get_temp_path(d, j) # get_temp_path(d, k)

\* C19: a record_access call (the step of the next caller that changes the
\* counters) adds one to exactly one of the two counters, to the hits if and
\* only if the entry of its path is cached at the call, and leaves the table
\* and the policy as they are.
C19_AccessCountsOnce ==
  [][\A c \in Callers :
       (/\ metrics'.cache_hits + metrics'.cache_misses
              # metrics.cache_hits + metrics.cache_misses
        /\ NextCaller(c)) =>
         LET cached == is_cached(entries[callers'[c].path])
         IN /\ callers'[c].res = "access"
            /\ metrics'.cache_hits = metrics.cache_hits + (IF cached THEN 1 ELSE 0)
            /\ metrics'.cache_misses = metrics.cache_misses + (IF cached THEN 0 ELSE 1)
            /\ UNCHANGED <<entries, pol, files, tasks>>]_vars

\* Both outcomes have happened: a hit on a cached path and a miss on a path
\* whose entry is not cached.
C19_Witness ==
  /\ metrics.cache_hits = 1
  /\ metrics.cache_misses = 1
  /\ \E c \in Callers : callers[c].res = "access"

\* ------------------------------------- more tasks than permits

PoolTasks == 4

\* Two callers, no ring executor, one failing copy; every file has one block,
\* so the cache never runs out of space.
PoolInit == Start("lru", FALSE, SubmitCallers, PoolTasks, 1) /\ NoHarness

PoolNext ==
  \/ \E c \in Callers, path \in Paths : SubmitBegin(c, path, Low, 1)
  \/ \E c \in Callers : EnsureSpace(c)
  \/ \E c \in Callers : SubmitEnqueue(c)
  \/ DispatchRecv
  \/ DispatchSpawn
  \/ \E t \in TaskIds : WorkerOpen(t, FALSE)
  \/ \E t \in TaskIds : WorkerWrite(t)
  \/ \E t \in TaskIds : WorkerShortRead(t)
  \/ \E t \in TaskIds : WorkerSync(t)
  \/ \E t \in TaskIds : WorkerCopyFails(t)
  \/ \E t \in TaskIds : WorkerVerify(t)
  \/ \E t \in TaskIds : WorkerRename(t, FALSE)
  \/ \E t \in TaskIds : WorkerComplete(t)
  \/ \E t \in TaskIds : WorkerBackoff(t)

SpecPool == PoolInit /\ [][PoolNext]_vars

\* The workers that were spawned and have not returned.
Spawned == {t \in TaskIds : workers[t].pc \notin {"none", "done"}}

SpaceTasks == 3

\* The sizes a call declares in SpecSpace: up to one block more than the
\* ceiling.
SpaceSizes == 1..(Ceiling + 1)

\* One caller and the sweeper; the only I/O error is a remove_file of the
\* sweeper that fails.
SpaceInit == Start("lru", FALSE, MaxCallers, SpaceTasks, 1) /\ NoHarness

\* The manager without shutdown.  The sources hold at most MaxSize blocks,
\* so the copy of a file declared larger ends at its size check.
SpaceNext ==
  \/ \E c \in Callers, path \in Paths, sz \in SpaceSizes : SubmitBegin(c, path, Low, sz)
  \/ \E c \in Callers : EnsureSpace(c)
  \/ \E c \in Callers : EvictTake(c)
  \/ \E c \in Callers : EvictUnlink(c, FALSE)
  \/ \E c \in Callers : EvictEnd(c)
  \/ \E c \in Callers : SubmitEnqueue(c)
  \/ DispatchRecv
  \/ DispatchSpawn
  \/ \E t \in TaskIds : WorkerOpen(t, FALSE)
  \/ \E t \in TaskIds : WorkerWrite(t)
  \/ \E t \in TaskIds : WorkerSync(t)
  \/ \E t \in TaskIds : WorkerVerify(t)
  \/ \E t \in TaskIds : WorkerRename(t, FALSE)
  \/ \E t \in TaskIds : WorkerComplete(t)
  \/ SweepScan
  \/ SweepRemove
  \/ \E fails \in BOOLEAN : SweepUnlink(fails)

SpecSpace == SpaceInit /\ [][SpaceNext]_vars

\* The table holds no entry but the one of the path.
EmptyBut(path) == \A q \in Paths \ {path} : ~HasEntry(q)

\* C12: a call that declares more than the ceiling ends with insufficient
\* space whatever the table and the cache directory hold, and the space
\* check of a call that declares at most the ceiling passes when the cache
\* is empty.
C12_OversizeRejected ==
  [][\A c \in Callers :
       /\ (InCall(c) /\ ~InCall(c)' /\ callers[c].size > Ceiling) =>
            callers'[c].res = "no_space"
       /\ (/\ callers[c].pc = "space"
           /\ callers'[c].pc # "space"
           /\ callers[c].size <= Ceiling
           /\ EmptyBut(callers[c].path)) =>
            callers'[c].pc = "insert"]_vars

\* ensure_cache_space of caller c returns Ok in this step, and no worker ran
\* beside it, from the reading of the cache size to the return; no sweep was
\* under way at either end (one in between can only take cached entries
\* away).
SpaceGrantedAlone(c) ==
  /\ callers'[c].pc = "insert"
  /\ \/ callers[c].pc = "space"
     \/ callers[c].pc = "evict" /\ callers[c].alone /\ sweep.pc = "idle"

\* C13: ensure_cache_space goes into no eviction when the cached bytes and
\* the needed size fit under the ceiling; when it returns Ok to a caller that
\* no worker ran beside, the cached bytes and the needed size fit under the
\* ceiling; it returns insufficient space exactly when the bytes freed are
\* fewer than the bytes that were to be freed.
C13_EnsureSpaceExact ==
  [][\A c \in Callers :
       /\ (/\ callers[c].pc = "space"
           /\ callers'[c].pc # "space"
           /\ get_current_cache_size(entries) + callers[c].size <= Ceiling) =>
            (callers'[c].pc = "insert" /\ UNCHANGED <<entries, files, pol, metrics>>)
       /\ SpaceGrantedAlone(c) =>
            get_current_cache_size(entries') + callers[c].size <= Ceiling
       /\ (callers[c].pc = "evict" /\ callers'[c].pc \notin {"evict", "unlink"}) =>
            (callers'[c].res = "no_space" <=> callers[c].freed < callers[c].need)]_vars

\* C18: no step of cleanup_expired_cache removes or alters an entry that is
\* in progress when the step is taken, whatever calls, evictions and workers
\* ran since the scan.
C18_SweepSparesInProgress ==
  [][\A path \in Paths :
       (sweep' # sweep /\ is_caching(entries[path])) =>
         entries'[path] = entries[path]]_vars

\* A call in progress goes on, the dispatcher runs, a spawned worker runs
\* and its I/O returns, a sweep that has begun goes through its list.  New
\* calls, new sweeps and I/O errors are up to the environment.
CallerStep(c) ==
  \/ EnsureSpace(c)
  \/ EvictTake(c)
  \/ EvictUnlink(c, FALSE)
  \/ EvictEnd(c)
  \/ SubmitEnqueue(c)

DispatchStep == DispatchRecv \/ DispatchSpawn

WorkerStep(t) ==
  \/ WorkerOpen(t, FALSE)
  \/ WorkerWrite(t)
  \/ WorkerSync(t)
  \/ WorkerVerify(t)
  \/ WorkerRename(t, FALSE)
  \/ WorkerComplete(t)

SweepStep == SweepRemove \/ SweepUnlink(FALSE)

SpaceFair ==
  /\ \A c \in 1..MaxCallers : WF_vars(CallerStep(c))
  /\ WF_vars(DispatchStep)
  /\ \A t \in 1..SpaceTasks : WF_vars(WorkerStep(t))
  /\ WF_vars(SweepStep)

SpecSpaceFair == SpecSpace /\ SpaceFair

\* C28: without shutdown and under fair scheduling, an entry in progress
\* whose task was accepted and has not been worked off ends up cached or
\* failed.
C28_CachingEnds ==
  \A path \in Paths :
    (is_caching(entries[path]) /\ InFlight(path) # {}) ~>
      (is_cached(entries[path]) \/ is_failed(entries[path]))

\* -------------------------------------------- the policies on their own

\* A policy of any kind, new, and any snapshot of the table to select from.
PolicyInit ==
  /\ \E kind \in PolicyKinds : Start(kind, FALSE, MaxCallers, MaxSubmits, MaxFaults)
  /\ snap \in [Paths -> SnapEntries]
  /\ needed = 0
  /\ victims = <<>>
  /\ ops = 0
  /\ NoProbe

\* Every step of the harness but PolicySelect forgets the last selection.
PolicyProtect(path) ==
  /\ pol' = protect_path(pol, path)
  /\ needed' = 0
  /\ victims' = <<>>
  /\ UNCHANGED <<mvars, snap, ops, hvars>>

PolicyUnprotect(path) ==
  /\ pol' = unprotect_path(pol, path)
  /\ needed' = 0
  /\ victims' = <<>>
  /\ UNCHANGED <<mvars, snap, ops, hvars>>

PolicyInsert(path) ==
  /\ ops < MaxOps
  /\ pol' = on_insert(pol, path)
  /\ ops' = ops + 1
  /\ needed' = 0
  /\ victims' = <<>>
  /\ UNCHANGED <<mvars, snap, hvars>>

PolicyAccess(path) ==
  /\ ops < MaxOps
  /\ pol' = on_access(pol, path)
  /\ ops' = ops + 1
  /\ needed' = 0
  /\ victims' = <<>>
  /\ UNCHANGED <<mvars, snap, hvars>>

PolicyRemove(path) ==
  /\ ops < MaxOps
  /\ pol' = on_remove(pol, path)
  /\ ops' = ops + 1
  /\ needed' = 0
  /\ victims' = <<>>
  /\ UNCHANGED <<mvars, snap, hvars>>

PolicySelect(n) ==
  /\ victims' \in select_victims(pol, snap, n)
  /\ needed' = n
  /\ UNCHANGED <<mvars, pol, snap, ops, hvars>>

PolicyNext ==
  \/ \E path \in Paths : PolicyProtect(path)
  \/ \E path \in Paths : PolicyUnprotect(path)
  \/ \E path \in Paths : PolicyInsert(path)
  \/ \E path \in Paths : PolicyAccess(path)
  \/ \E path \in Paths : PolicyRemove(path)
  \/ \E n \in 0..(2 * MaxSize) : PolicySelect(n)

SpecPolicy == PolicyInit /\ [][PolicyNext]_vars

\* C7: for each of the three policies, every snapshot and every needed
\* space, select_victims returns no path that is protected, none whose entry
\* is in progress and none whose entry has critical priority.
C7_VictimsEvictable ==
  \A i \in 1..Len(victims) :
    /\ ~is_protected(pol, victims[i])
    /\ ~is_caching(snap[victims[i]])
    /\ snap[victims[i]].prio # Critical

\* The ARC policy returned a victim that frees less than was needed, and left
\* out a cached entry of critical priority.
C7_Witness ==
  /\ pol.kind = "arc"
  /\ Len(victims) = 1
  /\ snap[victims[1]].size < needed
  /\ \E q \in Paths :
       /\ q # victims[1]
       /\ is_cached(snap[q])
       /\ snap[q].prio = Critical
       /\ ~is_protected(pol, q)

\* The declared sizes of the first n victims, added up.
Freed(n) == SumSizes(snap, {victims[i] : i \in 1..n})

\* C23: what select_victims returns is a prefix of a rank-ordered list of
\* the candidates, and a minimal one: if the candidates add up to the needed
\* space, the victims do and the victims without the last do not; needed
\* space 0 gives no victim; if the candidates fall short, all are returned.
C23_MinimalPrefix ==
  LET all == Candidates(pol, snap)
      n == Len(victims)
  IN /\ \E s \in SortedCandidates(pol, snap) : n <= Len(s) /\ SubSeq(s, 1, n) = victims
     /\ needed = 0 => victims = <<>>
     /\ SumSizes(snap, all) >= needed =>
          /\ Freed(n) >= needed
          /\ n > 0 => Freed(n - 1) < needed
     /\ SumSizes(snap, all) < needed => Range(victims) = all

\* Two candidates, and the first of the order alone covers the needed space:
\* the walk stopped before the second.
C23_Witness ==
  /\ Cardinality(Candidates(pol, snap)) = 2
  /\ needed = MaxSize
  /\ Len(victims) = 1
  /\ snap[victims[1]].size = MaxSize

\* ------------------------------------------------ cache/task.rs (6-97)

\* CacheTask::new draws the id from the source path and the clock reading and
\* stamps created_at with the clock; with_priority replaces the priority.
new_task(path, now) ==
  [id |-> <<path, now>>, priority |-> Normal, created_at |-> now]

with_priority(task, priority) == [task EXCEPT !.priority = priority]

\* PartialEq for CacheTask.
task_eq(a, b) == a.id = b.id

\* Ord for CacheTask: the reversed order of the priorities, then created_at.
task_cmp(a, b) ==
  IF b.priority < a.priority THEN "Less"
  ELSE IF b.priority > a.priority THEN "Greater"
  ELSE IF a.created_at < b.created_at THEN "Less"
  ELSE IF a.created_at > b.created_at THEN "Greater"
  ELSE "Equal"

MaxStamp == 1

TaskValues ==
  {with_priority(new_task(path, now), pr) :
     path \in Paths, now \in 0..MaxStamp, pr \in UsedPriorities}

Slots == 1..3

OrderInit ==
  /\ Start("lru", FALSE, MaxCallers, MaxSubmits, MaxFaults)
  /\ snap = [q \in Paths |-> NoEntry]
  /\ needed = 0
  /\ victims = <<>>
  /\ ops = 0
  /\ \E ts \in [Slots -> TaskValues] : ordering = [NoOrdering EXCEPT !.tasks = ts]
  /\ latency = NoLatency
  /\ reads = NoReads
  /\ NoExtra

\* Compare every two of the three tasks, with cmp and with ==.
CompareTasks ==
  /\ ordering.cmp = <<>>
  /\ ordering' =
       [ordering EXCEPT
          !.cmp = [i \in Slots |-> [j \in Slots |->
                     task_cmp(ordering.tasks[i], ordering.tasks[j])]],
          !.eq = [i \in Slots |-> [j \in Slots |->
                     task_eq(ordering.tasks[i], ordering.tasks[j])]]]
  /\ UNCHANGED <<mvars, pol, snap, needed, victims, ops, latency, reads, xvars>>

OrderNext == CompareTasks

SpecOrder == OrderInit /\ [][OrderNext]_vars

Compared == ordering.cmp # <<>>

Precedes(a, b) ==
  \/ a.priority > b.priority
  \/ a.priority = b.priority /\ a.created_at < b.created_at

\* C24: the task order is total, a precedes b exactly when a has the higher
\* priority or the same priority and the earlier creation time, it is
\* antisymmetric and transitive, and two tasks compare Equal only if they
\* are equal tasks.
C24_TaskOrder ==
  Compared =>
    LET t == ordering.tasks
        c == ordering.cmp
    IN /\ \A i, j \in Slots :
            /\ (c[i][j] = "Less") <=> Precedes(t[i], t[j])
            /\ (c[i][j] = "Greater") <=> (c[j][i] = "Less")
            /\ (c[i][j] = "Equal") => ordering.eq[i][j]
       /\ \A i, j, k \in Slots :
            (c[i][j] = "Less" /\ c[j][k] = "Less") => c[i][k] = "Less"

\* --------------------------------------- cache/metrics.rs (224-236, 387-406)

MaxSamples == 5
MaxLatency == 2

Recordable ==
  Len(latency.recorded["read"]) + Len(latency.recorded["write"])
    + Len(latency.recorded["cache"]) < MaxSamples

sample(ch, d) ==
  [latency EXCEPT !.buf[ch] = push(@, d), !.recorded[ch] = Append(@, d)]

record_read(d) ==
  /\ Recordable
  /\ latency' = [sample("read", d) EXCEPT !.total_reads = @ + 1]
  /\ UNCHANGED <<mvars, pol, snap, needed, victims, ops, ordering, reads, xvars>>

record_write(d) ==
  /\ Recordable
  /\ latency' = [sample("write", d) EXCEPT !.total_writes = @ + 1]
  /\ UNCHANGED <<mvars, pol, snap, needed, victims, ops, ordering, reads, xvars>>

record_cache_operation(d) ==
  /\ Recordable
  /\ latency' = sample("cache", d)
  /\ UNCHANGED <<mvars, pol, snap, needed, victims, ops, ordering, reads, xvars>>

reset_stats ==
  /\ latency' = [buf |-> [ch \in Channels |-> clear(latency.buf[ch])],
                 total_reads |-> 0, total_writes |-> 0,
                 recorded |-> [ch \in Channels |-> <<>>]]
  /\ UNCHANGED <<mvars, pol, snap, needed, victims, ops, ordering, reads, xvars>>

MetricsInit ==
  /\ Start("lru", FALSE, MaxCallers, MaxSubmits, MaxFaults)
  /\ NoHarness

MetricsNext ==
  \/ \E d \in 1..MaxLatency : record_read(d)
  \/ \E d \in 1..MaxLatency : record_write(d)
  \/ \E d \in 1..MaxLatency : record_cache_operation(d)
  \/ reset_stats

SpecMetrics == MetricsInit /\ [][MetricsNext]_vars

Latest(s, n) == SubSeq(s, Len(s) - n + 1, Len(s))

\* C27: after any number of recorded samples every latency buffer holds
\* min(number recorded, capacity) samples, the most recent ones from oldest
\* to newest, and the operation counters count every recorded operation,
\* overwritten samples included.
C27_RingKeepsLatest ==
  /\ \A ch \in Channels :
       LET b == latency.buf[ch]
           n == Len(latency.recorded[ch])
           kept == IF n < LatencyCapacity THEN n ELSE LatencyCapacity
       IN /\ len(b) = kept
          /\ iter(b) = Latest(latency.recorded[ch], kept)
  /\ latency.total_reads = Len(latency.recorded["read"])
  /\ latency.total_writes = Len(latency.recorded["write"])

\* The read channel has overwritten its two oldest samples, after an earlier
\* reset left other values in the slots, and the counter has counted all.
C27_Witness ==
  /\ Len(latency.recorded["read"]) = LatencyCapacity + 2
  /\ latency.total_reads = LatencyCapacity + 2
  /\ latency.buf["read"].head = 2
  /\ iter(latency.buf["read"]) = <<2, 1, 2>>
  /\ latency.buf["write"].size = 0
  /\ latency.buf["write"].data[0] # 0

\* ------------------------------------------------ fs/cachefs.rs (125-476)

\* 1024 * 1024, scaled.
Mebi == 2

MaxBackend == 4
MaxRead == 2
MaxMinMb == 1
MaxTenths == 3

\* The bytes of a file of length n in [offset, offset + size): the byte at
\* position i is i.
Slice(n, offset, size) ==
  [i \in 1..(IF offset >= n THEN 0
             ELSE IF offset + size <= n THEN size ELSE n - offset) |-> offset + i]

Data(bytes) == [kind |-> "data", data |-> bytes]
Error(errno) == [kind |-> "error", errno |-> errno]

\* read_cache_smart: read_cache_direct below 4 MiB, read_cache_zero_copy from
\* there on; both open the file, seek and return what file.read gives up to
\* the end of the file.  The cache file is a finished copy of the backend's.
read_cache_smart(r, offset, size) ==
  IF r.cache = "ok" THEN Data(Slice(r.len, offset, size)) ELSE Error("EIO")

\* read_nfs_direct: open, seek, read_exact; on UnexpectedEof a second read of
\* the reader that read_exact has drained, truncated to what that read gave.
read_nfs_direct(r, offset, size) ==
  IF r.backend # "ok" THEN Error("ENOENT")
  ELSE IF offset + size <= r.len THEN Data(Slice(r.len, offset, size))
  ELSE Data(<<>>)

\* AsyncExecutor::should_cache.
should_cache(size, config) ==
  IF size < config.min_cache_file_size THEN FALSE
  ELSE IF size > config.max_cache_size_bytes \div 10 THEN FALSE
  ELSE TRUE

\* The configuration as main.rs builds it (megabytes and gigabytes turned
\* into bytes), one file of the backend and the state of its cache file.
ReadInit ==
  /\ Start("lru", FALSE, MaxCallers, MaxSubmits, MaxFaults)
  /\ snap = [q \in Paths |-> NoEntry]
  /\ needed = 0
  /\ victims = <<>>
  /\ ops = 0
  /\ ordering = NoOrdering
  /\ latency = NoLatency
  /\ NoExtra
  /\ \E mb \in 0..MaxMinMb, tenths \in 1..MaxTenths, path \in Paths,
        b \in {"ok", "gone"}, n \in 0..MaxBackend, c \in {"absent", "ok", "error"} :
       reads = [NoReads EXCEPT
                  !.config = [min_cache_file_size |-> mb * Mebi,
                              max_cache_size_bytes |-> 10 * tenths],
                  !.path = path, !.backend = b, !.len = n, !.cache = c]

\* CacheFs::read.  The cache file is there: read it, and on Ok count the
\* access and reply.  Otherwise, or on Err, read the backend; on Ok reply and
\* spawn the delayed trigger, on Err reply the error.
ReadFile(offset, size) ==
  /\ reads.trigger # "pending"
  /\ metrics.cache_hits + metrics.cache_misses < MaxAccesses
  /\ LET hit == IF reads.cache # "absent"
                  THEN read_cache_smart(reads, offset, size) ELSE Error("ENOENT")
         nfs == read_nfs_direct(reads, offset, size)
     IN IF hit.kind = "data"
          THEN /\ metrics' = IF path_is_cached(entries, reads.path)
                               THEN [metrics EXCEPT !.cache_hits = @ + 1]
                               ELSE [metrics EXCEPT !.cache_misses = @ + 1]
               /\ reads' = [reads EXCEPT !.reply = [hit EXCEPT !.kind = "cache"],
                                         !.trigger = "none"]
          ELSE /\ reads' = [reads EXCEPT
                              !.reply = [nfs EXCEPT !.kind =
                                           IF nfs.kind = "data" THEN "backend" ELSE @],
                              !.trigger = IF nfs.kind = "data" THEN "pending" ELSE "none"]
               /\ UNCHANGED metrics
  /\ UNCHANGED <<entries, files, pol, tasks, received, open, workers, permits, active,
                 disp, signal, shut, callers, sweep, uring, faults,
                 snap, needed, victims, ops, ordering, latency, xvars>>

\* The task spawned after a backend read, two seconds later: the file is
\* submitted with priority Low when its length is at least
\* min_cache_file_size * 1024 * 1024.
ReadTrigger ==
  /\ reads.trigger = "pending"
  /\ reads' = [reads EXCEPT !.trigger =
                 IF reads.len >= reads.config.min_cache_file_size * Mebi
                   THEN "submitted" ELSE "skipped"]
  /\ UNCHANGED <<mvars, pol, snap, needed, victims, ops, ordering, latency, xvars>>

\* should_cache applied to the file.
ShouldCache ==
  /\ reads.advice = "none"
  /\ reads' = [reads EXCEPT !.advice =
                 IF should_cache(reads.len, reads.config) THEN "yes" ELSE "no"]
  /\ UNCHANGED <<mvars, pol, snap, needed, victims, ops, ordering, latency, xvars>>

ReadNext ==
  \/ \E offset \in 0..MaxBackend, size \in 1..MaxRead : ReadFile(offset, size)
  \/ ReadTrigger
  \/ ShouldCache

SpecRead == ReadInit /\ [][ReadNext]_vars

\* C21: a read of a file the backend can read never fails because of the
\* cache: with the cache file absent or its read failing, the reply is the
\* backend's data for the range asked, not an error.
C21_ReadFallsBack ==
  [][\A offset \in 0..MaxBackend, size \in 1..MaxRead :
       (ReadFile(offset, size) /\ reads.backend = "ok" /\ reads.cache # "ok") =>
         reads'.reply = [kind |-> "backend", data |-> Slice(reads.len, offset, size)]]_vars

\* C22: after a backend read the file is submitted for promotion exactly
\* when its size is at least min-file-size, the configured byte value, and at
\* most a tenth of the ceiling.
C22_PromotionRange ==
  reads.trigger \in {"submitted", "skipped"} =>
    (reads.trigger = "submitted" <=>
       /\ reads.len >= reads.config.min_cache_file_size
       /\ reads.len <= reads.config.max_cache_size_bytes \div 10)

\* ------------------------------- eviction and sweep, the order of removal

\* C31: when eviction or cleanup-expired deletes an entry the local file is
\* removed first and the entry second: in the step that takes the entry out
\* of the table the file is no longer at the canonical path.
C31_FileBeforeEntry ==
  [][\A q \in Paths :
       (/\ (\E c \in Callers : EvictTake(c)) \/ SweepRemove
        /\ HasEntry(q)
        /\ entries'[q] = NoEntry) => ~Present(files', q)]_vars

\* ------------------------------------- eviction racing with a promotion

RaceTasks == 3

\* A small file, and one that does not fit under the ceiling.
RaceSizes == {1, Ceiling + 1}

RaceInit == Start("lru", FALSE, SubmitCallers, RaceTasks, 1) /\ NoHarness

\* Two callers without shutdown and cleanup; the only I/O error is a rename
\* that fails, which leaves a failed entry for select_victims to choose.
RaceNext ==
  \/ \E c \in Callers, path \in Paths, sz \in RaceSizes : SubmitBegin(c, path, Low, sz)
  \/ \E c \in Callers : EnsureSpace(c)
  \/ \E c \in Callers : EvictTake(c)
  \/ \E c \in Callers : EvictUnlink(c, FALSE)
  \/ \E c \in Callers : EvictEnd(c)
  \/ \E c \in Callers : SubmitEnqueue(c)
  \/ DispatchRecv
  \/ DispatchSpawn
  \/ \E t \in TaskIds : WorkerOpen(t, FALSE)
  \/ \E t \in TaskIds : WorkerWrite(t)
  \/ \E t \in TaskIds : WorkerSync(t)
  \/ \E t \in TaskIds : WorkerVerify(t)
  \/ \E t \in TaskIds, fails \in BOOLEAN : WorkerRename(t, fails)
  \/ \E t \in TaskIds : WorkerComplete(t)

SpecRace == RaceInit /\ [][RaceNext]_vars

\* Caller c has taken the in-progress entry of q out of the table and has not
\* inserted it again yet.
Held(c, q) ==
  /\ callers[c].pc = "unlink"
  /\ Head(callers[c].victims) = q
  /\ is_caching(callers[c].held)

\* C32: a victim that is in progress when ensure-space reaches it is kept
\* as it was and not counted as freed, and while ensure-space handles it no
\* worker of the path finds the entry missing and no submit creates another
\* entry for the path.
C32_RacingVictimKept ==
  [][\A q \in Paths, c \in Callers :
       Held(c, q) =>
         /\ EvictUnlink(c, FALSE) =>
              /\ entries'[q] = callers[c].held
              /\ callers'[c].freed = callers[c].freed
         /\ \A t \in 1..Len(tasks) :
              (tasks[t].path = q /\ workers[t].pc = "renamed" /\ workers'[t].pc = "done")
                => HasEntry(q)
         /\ (~HasEntry(q) /\ entries'[q] # NoEntry) => EvictUnlink(c, FALSE)]_vars

\* ------------------------------- the retry back-off (manager.rs 569-578)

\* The width of the unsigned integers (64 bits), scaled.
Width == 20

\* Unsigned arithmetic: the shift takes its amount modulo the width, and
\* shifts and products wrap.
shl(x, n) == (x * 2 ^ (n % Width)) % 2 ^ Width

\* A back-off that shifts by the retry count as it is.
backoff_uncapped(retry_count) == (1000 * shl(1, retry_count)) % 2 ^ Width

\* Duration::from_millis(1000 * (1 << task.retry_count.min(5))).
backoff_delay(retry_count) ==
  (1000 * shl(1, IF retry_count < 5 THEN retry_count ELSE 5)) % 2 ^ Width

MaxCount == 70

\* The state of the manager with all three earlier harnesses idle.
Apart ==
  /\ Start("lru", FALSE, MaxCallers, MaxSubmits, MaxFaults)
  /\ snap = [q \in Paths |-> NoEntry]
  /\ needed = 0
  /\ victims = <<>>
  /\ ops = 0
  /\ ordering = NoOrdering
  /\ latency = NoLatency
  /\ reads = NoReads

avars == <<mvars, pol, snap, needed, victims, ops, ordering, latency, reads>>

\* A task that has failed retry_count times before.
BackoffInit ==
  /\ Apart
  /\ NoBuffers
  /\ NoRing
  /\ \E r \in 0..(MaxCount - 1) : delays = [retry_count |-> r, delay |-> 0]

\* The Err arm when the task can retry: increment_retry, then the delay.
RetryDelay ==
  /\ delays.delay = 0
  /\ delays' = [retry_count |-> delays.retry_count + 1,
                delay |-> backoff_delay(delays.retry_count + 1)]
  /\ UNCHANGED <<avars, bvars, uvars>>

BackoffNext == RetryDelay

SpecBackoff == BackoffInit /\ [][BackoffNext]_vars

\* C33: the back-off after the k-th retry increment is 1000 * 2^min(k, 5)
\* milliseconds: 2000, 4000 and 8000 for k = 1, 2, 3, never below 1000 nor
\* above 32000 whatever the retry count, with no integer overflow.
C33_BackoffDoubles ==
  delays.delay # 0 =>
    LET k == delays.retry_count
    IN /\ k = 1 => delays.delay = 2000
       /\ k = 2 => delays.delay = 4000
       /\ k = 3 => delays.delay = 8000
       /\ k = 4 => delays.delay = 16000
       /\ k >= 5 => delays.delay = 32000
       /\ delays.delay >= 1000
       /\ delays.delay <= 32000

\* The delay after as many increments as the integer has bits, where a shift
\* by the count itself would wrap.
C33_Witness ==
  /\ delays.retry_count = Width
  /\ delays.delay = 32000

\* ------------------------------------------- the ARC policy on its own

ArcOps == 10

ArcInit == Start("arc", FALSE, MaxCallers, MaxSubmits, MaxFaults) /\ NoHarness

ArcInsert(path) ==
  /\ ops < ArcOps
  /\ pol' = on_insert(pol, path)
  /\ ops' = ops + 1
  /\ UNCHANGED <<mvars, snap, needed, victims, hvars>>

ArcAccess(path) ==
  /\ ops < ArcOps
  /\ pol' = on_access(pol, path)
  /\ ops' = ops + 1
  /\ UNCHANGED <<mvars, snap, needed, victims, hvars>>

ArcRemove(path) ==
  /\ ops < ArcOps
  /\ pol' = on_remove(pol, path)
  /\ ops' = ops + 1
  /\ UNCHANGED <<mvars, snap, needed, victims, hvars>>

ArcNext ==
  \/ \E path \in Paths : ArcInsert(path)
  \/ \E path \in Paths : ArcAccess(path)
  \/ \E path \in Paths : ArcRemove(path)

SpecArc == ArcInit /\ [][ArcNext]_vars

\* The access of path is a hit of the ghost ring b1, resp. b2: the path is in
\* none of the rings on_access looks at before.
GhostRecent(path) ==
  ~Contains(pol.t1, path) /\ ~Contains(pol.t2, path) /\ Contains(pol.b1, path)

GhostFrequent(path) ==
  /\ ~Contains(pol.t1, path) /\ ~Contains(pol.t2, path)
  /\ ~Contains(pol.b1, path) /\ Contains(pol.b2, path)

\* C34: in the ARC policy 0 <= p <= capacity after any sequence of on_insert,
\* on_access and on_remove; an access that hits the evicted-recent ghost ring
\* raises p by 1, capped at the capacity, one that hits the evicted-frequent
\* ghost ring lowers p by 1, floored at 0, and nothing else changes p.
C34_SplitSaturates ==
  [][/\ pol.p >= 0 /\ pol.p <= RingCapacity
     /\ pol'.p >= 0 /\ pol'.p <= RingCapacity
     /\ \A path \in Paths :
          /\ (ArcAccess(path) /\ GhostRecent(path)) =>
               pol'.p = IF pol.p < RingCapacity THEN pol.p + 1 ELSE RingCapacity
          /\ (ArcAccess(path) /\ GhostFrequent(path)) =>
               pol'.p = IF pol.p > 0 THEN pol.p - 1 ELSE 0
     /\ pol'.p # pol.p =>
          \E path \in Paths : ArcAccess(path) /\ (GhostRecent(path) \/ GhostFrequent(path))]_vars

\* p is at the capacity after more calls than the six it takes to get there,
\* and a path sits in b1: its access is a ghost hit that the cap absorbs.
C34_Witness ==
  /\ pol.kind = "arc"
  /\ pol.p = RingCapacity
  /\ ops = ArcOps - 1
  /\ \E path \in Paths : GhostRecent(path)

\* The rings of the ARC policy that hold path.
RingsOf(path) ==
  {r \in {"t1", "t2", "b1", "b2"} : Contains(pol[r], path)}

\* C38: in the ARC policy, after any sequence of on_insert, on_access and
\* on_remove, re-inserting a removed or accessed path included, every path is
\* in at most one of the rings recent, frequent, evicted-recent and
\* evicted-frequent.
C38_RingsDisjoint ==
  \A path \in Paths : Cardinality(RingsOf(path)) <= 1

\* ------------------------------------------- the LRU policy on its own

MaxHits == 1

\* Snapshot entries with their access counts.
LruEntries ==
  SnapEntries \cup
  {[e EXCEPT !.count = c] :
     e \in {x \in SnapEntries : is_cached(x) \/ is_failed(x)}, c \in 1..MaxHits}

LruInit ==
  /\ Start("lru", FALSE, MaxCallers, MaxSubmits, MaxFaults)
  /\ snap \in [Paths -> LruEntries]
  /\ needed = 0
  /\ victims = <<>>
  /\ ops = 0
  /\ NoProbe

LruNext == \E n \in 0..(2 * MaxSize) : PolicySelect(n)

SpecLru == LruInit /\ [][LruNext]_vars

Chosen == Range(victims)

LeftOut == Candidates(pol, snap) \ Range(victims)

Attempting == {t \in 1..Len(tasks) : workers[t].pc \in AttemptPcs}

\* C37: two workers that are inside an attempt for different destinations
\* use different temp paths, whatever their retry counts are.
C37_TempPathsApart ==
  \A t, u \in Attempting :
    tasks[t].path # tasks[u].path => TempOf(t) # TempOf(u)

\* ------------------------------------------- a refused promotion

\* The submit call of caller c returns insufficient space in this step.
Refused(c) == InCall(c) /\ ~InCall(c)' /\ callers'[c].res = "no_space"

\* C39: a submit call that is refused with insufficient space has evicted
\* nothing: none of the files of other paths was removed on its behalf.
C39_RefusedEvictsNothing ==
  [][\A c \in Callers : Refused(c) => callers[c].evicted = <<>>]_vars

\* ------------------------------------------- io/buffer.rs (97-266)

MaxBuffers == 2

\* BufferPool::new (108-142): every index on the free list, one permit a
\* buffer, nothing allocated, the buffers as allocated.
new_pool(count) ==
  [total_buffers |-> count,
   free_list |-> [i \in 1..count |-> i - 1],
   permits |-> count,
   allocated |-> 0,
   dirty |-> {}]

\* A release that forgets the index.
release_lost(p, index) == [p EXCEPT !.allocated = @ - 1]

\* BufferPool::release (170-174), under the lock of the free list.
release(p, index) ==
  [p EXCEPT !.free_list = Append(@, index), !.allocated = @ - 1]

BufferInit ==
  /\ Apart
  /\ delays = NoDelays
  /\ NoRing
  /\ \E count \in 1..MaxBuffers : pool = new_pool(count)
  /\ guards = [u \in Users |-> NoGuard]

\* acquire is called (145): the caller is at semaphore.acquire().await.
AcquireCall(u) ==
  /\ guards[u].pc = "idle"
  /\ guards' = [guards EXCEPT ![u] = [pc |-> "wait", index |-> 0, res |-> "none"]]
  /\ UNCHANGED <<avars, delays, pool>>

\* semaphore.acquire().await completes (147-148): a permit is taken; with
\* none left the caller stays where it is.
AcquirePermit(u) ==
  /\ guards[u].pc = "wait"
  /\ pool.permits > 0
  /\ pool' = [pool EXCEPT !.permits = @ - 1]
  /\ guards' = [guards EXCEPT ![u].pc = "permit"]
  /\ UNCHANGED <<avars, delays>>

\* free_list.pop_front() under the lock (151-155); on an empty list the call
\* returns the error and its permit is dropped.
AcquirePop(u) ==
  /\ guards[u].pc = "permit"
  /\ IF pool.free_list = <<>>
       THEN /\ pool' = [pool EXCEPT !.permits = @ + 1]
            /\ guards' = [guards EXCEPT ![u] =
                 [pc |-> "idle", index |-> 0, res |-> "No free buffers available"]]
       ELSE /\ pool' = [pool EXCEPT !.free_list = Tail(@)]
            /\ guards' = [guards EXCEPT ![u] =
                 [pc |-> "popped", index |-> Head(pool.free_list), res |-> "none"]]
  /\ UNCHANGED <<avars, delays>>

\* allocated.fetch_add(1) and the guard is returned (157-167).
AcquireCount(u) ==
  /\ guards[u].pc = "popped"
  /\ pool' = [pool EXCEPT !.allocated = @ + 1]
  /\ guards' = [guards EXCEPT ![u].pc = "held", ![u].res = "ok"]
  /\ UNCHANGED <<avars, delays>>

\* The holder of a guard writes to its buffer (with_mut, 227-233).
GuardWrite(u) ==
  /\ guards[u].pc = "held"
  /\ guards[u].index \notin pool.dirty
  /\ pool' = [pool EXCEPT !.dirty = @ \cup {guards[u].index}]
  /\ UNCHANGED <<avars, delays, guards>>

\* Drop for BufferGuard, first block (255-259): the buffer is cleared.
DropClear(u) ==
  /\ guards[u].pc = "held"
  /\ pool' = [pool EXCEPT !.dirty = @ \ {guards[u].index}]
  /\ guards' = [guards EXCEPT ![u].pc = "cleared"]
  /\ UNCHANGED <<avars, delays>>

\* Drop for BufferGuard, pool.release(index) (262).
DropRelease(u) ==
  /\ guards[u].pc = "cleared"
  /\ pool' = release(pool, guards[u].index)
  /\ guards' = [guards EXCEPT ![u].pc = "released"]
  /\ UNCHANGED <<avars, delays>>

\* After Drop::drop the fields of the guard are dropped, the permit last
\* (204-209): the permit goes back to the semaphore.
DropPermit(u) ==
  /\ guards[u].pc = "released"
  /\ pool' = [pool EXCEPT !.permits = @ + 1]
  /\ guards' = [guards EXCEPT ![u] = NoGuard]
  /\ UNCHANGED <<avars, delays>>

BufferNext ==
  \/ \E u \in Users : AcquireCall(u) /\ UNCHANGED uvars
  \/ \E u \in Users : AcquirePermit(u) /\ UNCHANGED uvars
  \/ \E u \in Users : AcquirePop(u) /\ UNCHANGED uvars
  \/ \E u \in Users : AcquireCount(u) /\ UNCHANGED uvars
  \/ \E u \in Users : GuardWrite(u) /\ UNCHANGED uvars
  \/ \E u \in Users : DropClear(u) /\ UNCHANGED uvars
  \/ \E u \in Users : DropRelease(u) /\ UNCHANGED uvars
  \/ \E u \in Users : DropPermit(u) /\ UNCHANGED uvars

SpecBuffer == BufferInit /\ [][BufferNext]_vars

\* The guards that are out: returned by acquire and not yet released.
Outstanding == {u \in Users : guards[u].pc \in {"held", "cleared"}}

\* The users that own a buffer index: popped from the free list and not yet
\* pushed back.
Owners == {u \in Users : guards[u].pc \in {"popped", "held", "cleared"}}

\* C36: the allocated count of the buffer pool is the number of guards that
\* are out and is at most the number of buffers; no two users own the same
\* buffer index; no acquire ends with 'No free buffers available': a caller
\* that got its permit finds an index on the free list, and with every
\* buffer owned a caller waits at the semaphore.
C36_PoolCounts ==
  /\ pool.allocated = Cardinality(Outstanding)
  /\ pool.allocated <= pool.total_buffers
  /\ \A u, w \in Owners : u # w => guards[u].index # guards[w].index
  /\ \A u \in Users :
       /\ guards[u].res # "No free buffers available"
       /\ guards[u].pc = "permit" => pool.free_list # <<>>
  /\ Cardinality(Owners) = pool.total_buffers => pool.permits = 0

\* Every buffer is held by a guard and one more caller waits for a permit.
C36_Witness ==
  /\ pool.total_buffers = MaxBuffers
  /\ Cardinality(Outstanding) = MaxBuffers
  /\ \E u \in Users : guards[u].pc = "wait"

\* ------------------------------------------- io/uring.rs (86-354)

QueueDepth == 2

MaxChunks == 2

MaxCalls == 3

RingFaults == 1

RingUsers == 2

\* The tasks that share the executor.
Sharers == 1..RingUsers

\* IoUringExecutor::new (95-136): an empty ring of queue_depth entries and a
\* pool of min(queue_depth, 128) buffers.
RingInit ==
  /\ Apart
  /\ delays = NoDelays
  /\ pool = new_pool(QueueDepth)
  /\ guards = [u \in Users |-> NoGuard]
  /\ \E f \in 0..RingFaults :
       ioring = [lock |-> 0, sq |-> <<>>, flight |-> {}, cq |-> <<>>, issued |-> 0,
                 faults |-> f]
  /\ iocalls = [u \in Users |-> NoCall]

\* The entries one pass of a call pushes: one read with user_data 0x42 or
\* the buffer index (157-160, 218-226), or the two splices with user_data 1
\* and 2 (304-323).  The owner is the call, which the code does not record.
Entries(call) ==
  IF call.kind = "splice_file"
    THEN <<[owner |-> call.id, user_data |-> 1], [owner |-> call.id, user_data |-> 2]>>
    ELSE IF call.kind = "read_direct"
      THEN <<[owner |-> call.id, user_data |-> 66]>>
      ELSE <<[owner |-> call.id, user_data |-> 0]>>

\* A call begins (139-153, 208-228, 262-300); read_direct goes for a buffer
\* first.
UringCall(u, kind, chunks) ==
  /\ iocalls[u].pc = "idle"
  /\ ioring.issued < MaxCalls
  /\ ioring' = [ioring EXCEPT !.issued = @ + 1]
  /\ iocalls' = [iocalls EXCEPT ![u] =
       [pc |-> IF kind = "read_direct" THEN "acquire" ELSE "lock",
        kind |-> kind, id |-> ioring.issued + 1, chunks |-> chunks,
        want |-> IF kind = "splice_file" THEN 2 ELSE 1, reaped |-> 0, res |-> "none"]]
  /\ UNCHANGED <<avars, delays, bvars>>

\* self.ring.lock() (165, 230, 326); read_direct holds its buffer by then.
UringLock(u) ==
  /\ \/ iocalls[u].pc = "lock"
     \/ iocalls[u].pc = "acquire" /\ guards[u].pc = "held"
  /\ ioring.lock = 0
  /\ ioring' = [ioring EXCEPT !.lock = u]
  /\ iocalls' = [iocalls EXCEPT ![u].pc = "push"]
  /\ UNCHANGED <<avars, delays, bvars>>

\* The call returns: the lock guard is dropped; the buffer of read_direct is
\* dropped after it.
Returned(call, res) ==
  [NoCall EXCEPT !.pc = IF call.kind = "read_direct" THEN "drop" ELSE "idle", !.res = res]

\* submission().push of each entry (166-173, 231-238, 327-334): a full queue
\* is an error, after the entries that went in before it.
UringPush(u) ==
  /\ iocalls[u].pc = "push"
  /\ LET me == iocalls[u]
         room == QueueDepth - Len(ioring.sq)
     IN IF room >= me.want
          THEN /\ ioring' = [ioring EXCEPT !.sq = @ \o Entries(me)]
               /\ iocalls' = [iocalls EXCEPT ![u].pc = "submit"]
          ELSE /\ ioring' = [ioring EXCEPT !.sq = @ \o SubSeq(Entries(me), 1, room),
                                           !.lock = 0]
               /\ iocalls' = [iocalls EXCEPT ![u] = Returned(me, "SQ full")]
  /\ UNCHANGED <<avars, delays, bvars>>

\* submit_and_wait, the submission (176-177, 240-241, 336-337): the kernel
\* takes every entry of the submission queue.  A failing call returns the
\* error with the entries taken or not.
UringSubmit(u, fails, taken) ==
  /\ iocalls[u].pc = "submit"
  /\ fails => ioring.faults > 0
  /\ ~fails => taken
  /\ ioring' = [ioring EXCEPT
       !.sq = IF taken THEN <<>> ELSE @,
       !.flight = IF taken THEN @ \cup Range(ioring.sq) ELSE @,
       !.faults = IF fails THEN @ - 1 ELSE @,
       !.lock = IF fails THEN 0 ELSE @]
  /\ iocalls' = [iocalls EXCEPT ![u] =
       IF fails THEN Returned(@, "Submit failed") ELSE [@ EXCEPT !.pc = "wait"]]
  /\ UNCHANGED <<avars, delays, bvars>>

\* The kernel completes an entry in flight, with a result or an error.
KernelComplete(e, fails) ==
  /\ e \in ioring.flight
  /\ fails => ioring.faults > 0
  /\ ioring' = [ioring EXCEPT
       !.flight = @ \ {e},
       !.cq = Append(@, [owner |-> e.owner, user_data |-> e.user_data,
                         result |-> IF fails THEN "err" ELSE "ok"]),
       !.faults = IF fails THEN @ - 1 ELSE @]
  /\ UNCHANGED <<avars, delays, bvars, iocalls>>

\* submit_and_wait, the wait: it returns with `want` completions on the
\* completion queue.
UringWait(u) ==
  /\ iocalls[u].pc = "wait"
  /\ Len(ioring.cq) >= iocalls[u].want
  /\ iocalls' = [iocalls EXCEPT ![u].pc = "reap"]
  /\ UNCHANGED <<avars, delays, bvars, ioring>>

\* completion().next() (180-189, 243-252, 340-350): the first completion of
\* the queue is taken, whatever its user_data; a negative result returns the
\* error; after the last of a chunk the lock is dropped, and splice_file
\* goes on with the next chunk (352-353).
UringReap(u) ==
  /\ iocalls[u].pc = "reap"
  /\ LET me == iocalls[u]
     IN IF ioring.cq = <<>>
          THEN /\ ioring' = [ioring EXCEPT !.lock = 0]
               /\ iocalls' = [iocalls EXCEPT ![u] = Returned(me, "No completion")]
        ELSE IF Head(ioring.cq).result = "err"
          THEN /\ ioring' = [ioring EXCEPT !.cq = Tail(@), !.lock = 0]
               /\ iocalls' = [iocalls EXCEPT ![u] = Returned(me, "failed")]
        ELSE IF me.reaped + 1 < me.want
          THEN /\ ioring' = [ioring EXCEPT !.cq = Tail(@)]
               /\ iocalls' = [iocalls EXCEPT ![u].reaped = @ + 1]
        ELSE IF me.chunks > 1
          THEN /\ ioring' = [ioring EXCEPT !.cq = Tail(@), !.lock = 0]
               /\ iocalls' = [iocalls EXCEPT ![u] =
                    [me EXCEPT !.pc = "lock", !.chunks = @ - 1, !.reaped = 0]]
          ELSE /\ ioring' = [ioring EXCEPT !.cq = Tail(@), !.lock = 0]
               /\ iocalls' = [iocalls EXCEPT ![u] = Returned(me, "ok")]
  /\ UNCHANGED <<avars, delays, bvars>>

\* read_direct has returned and its buffer guard is gone.
UringDone(u) ==
  /\ iocalls[u].pc = "drop"
  /\ guards[u] = NoGuard
  /\ iocalls' = [iocalls EXCEPT ![u].pc = "idle"]
  /\ UNCHANGED <<avars, delays, bvars, ioring>>

RingNext ==
  \/ \E u \in Sharers, kind \in {"read_direct", "read_fixed"} : UringCall(u, kind, 1)
  \/ \E u \in Sharers, chunks \in 1..MaxChunks : UringCall(u, "splice_file", chunks)
  \/ \E u \in Sharers : iocalls[u].pc = "acquire" /\ AcquireCall(u) /\ UNCHANGED uvars
  \/ \E u \in Sharers : AcquirePermit(u) /\ UNCHANGED uvars
  \/ \E u \in Sharers : AcquirePop(u) /\ UNCHANGED uvars
  \/ \E u \in Sharers : AcquireCount(u) /\ UNCHANGED uvars
  \/ \E u \in Sharers : UringLock(u)
  \/ \E u \in Sharers : UringPush(u)
  \/ \E u \in Sharers, fails, taken \in BOOLEAN : UringSubmit(u, fails, taken)
  \/ \E e \in ioring.flight, fails \in BOOLEAN : KernelComplete(e, fails)
  \/ \E u \in Sharers : UringWait(u)
  \/ \E u \in Sharers : UringReap(u)
  \/ \E u \in Sharers : iocalls[u].pc = "drop" /\ DropClear(u) /\ UNCHANGED uvars
  \/ \E u \in Sharers : DropRelease(u) /\ UNCHANGED uvars
  \/ \E u \in Sharers : DropPermit(u) /\ UNCHANGED uvars
  \/ \E u \in Sharers : UringDone(u)

SpecRing == RingInit /\ [][RingNext]_vars

\* Caller u takes a completion off the queue in this step.
Reaps(u) == iocalls[u].pc = "reap" /\ ioring'.cq # ioring.cq

\* The call of u leaves the ring in this step, with a result or an error.
Leaves(u) == ioring.lock = u /\ iocalls'[u].res # "none"

\* C40: a completion taken by a call comes from a submission of that call,
\* and a call that returns, with a result or with an error, leaves nothing
\* on the ring: no entry on the submission queue, none in flight and no
\* completion.
C40_RingPrivate ==
  [][\A u \in Sharers :
       /\ Reaps(u) => Head(ioring.cq).owner = iocalls[u].id
       /\ Leaves(u) =>
            /\ ioring'.sq = <<>>
            /\ ioring'.flight = {}
            /\ ioring'.cq = <<>>]_vars

====
